---- MODULE Spec2Model ----
(***************************************************************************)
(* Hallucination-risk pipeline of the research-paper QA assistant          *)
(* (agents/hallucination_detector.py): citation verification, claim-level  *)
(* NLI verification, cross-generation consistency and the risk aggregator, *)
(* and the job status table of the API (api/services/crud.py).             *)
(*                                                                         *)
(* Text is a sequence of one-character strings.  Python floats are         *)
(* modelled as exact rationals <<numerator, denominator>> in lowest terms. *)
(***************************************************************************)
EXTENDS Integers, Sequences, FiniteSets, TLC

\* ------------------------------------------------------------------------
\* Bounds
\* ------------------------------------------------------------------------

\* Largest number of claims the claim-extraction call returns in the model.
MaxClaims == 2

\* The clock of the job table stops at MaxTime: at most MaxTime - 1 calls of
\* the job CRUD.
MaxTime == 4

\* ------------------------------------------------------------------------
\* Rational arithmetic (Python float arithmetic, without rounding)
\* ------------------------------------------------------------------------

Abs(x) == IF x < 0 THEN -x ELSE x

RECURSIVE GCD(_, _)
GCD(a, b) == IF b = 0 THEN a ELSE GCD(b, a % b)

Rat(n, d) ==
    LET g == GCD(Abs(n), Abs(d))
        s == IF d < 0 THEN -1 ELSE 1
    IN  <<(s * n) \div g, (s * d) \div g>>

RZero == <<0, 1>>
ROne == <<1, 1>>
RHalf == <<1, 2>>
RAdd(x, y) == Rat(x[1] * y[2] + y[1] * x[2], x[2] * y[2])
RSub(x, y) == Rat(x[1] * y[2] - y[1] * x[2], x[2] * y[2])
RMul(x, y) == Rat(x[1] * y[1], x[2] * y[2])
RDivInt(x, k) == Rat(x[1], x[2] * k)
RLt(x, y) == x[1] * y[2] < y[1] * x[2]
RGt(x, y) == RLt(y, x)
RLe(x, y) == ~RLt(y, x)
RMax(x, y) == IF RLt(x, y) THEN y ELSE x

RECURSIVE RSum(_)
RSum(xs) == IF xs = <<>> THEN RZero ELSE RAdd(Head(xs), RSum(Tail(xs)))

\* ------------------------------------------------------------------------
\* Characters and strings
\* ------------------------------------------------------------------------

LowerLetters == <<"a", "b", "c", "d", "e", "f", "g", "h", "i", "j", "k", "l", "m",
                  "n", "o", "p", "q", "r", "s", "t", "u", "v", "w", "x", "y", "z">>
UpperLetters == <<"A", "B", "C", "D", "E", "F", "G", "H", "I", "J", "K", "L", "M",
                  "N", "O", "P", "Q", "R", "S", "T", "U", "V", "W", "X", "Y", "Z">>
DigitChars == {"0", "1", "2", "3", "4", "5", "6", "7", "8", "9"}
SpaceChars == {" ", "\n", "\t"}

Range(f) == {f[i] : i \in DOMAIN f}

IsDigit(c) == c \in DigitChars
IsSpace(c) == c \in SpaceChars
\* \w of the re module: letters, digits and the underscore
IsWord(c) == c \in Range(LowerLetters) \cup Range(UpperLetters) \cup DigitChars \cup {"_"}

\* str.lower() on one character
LowerChar(c) ==
    IF c \in Range(UpperLetters)
    THEN LowerLetters[CHOOSE i \in DOMAIN UpperLetters : UpperLetters[i] = c]
    ELSE c

\* str.lower()
Lower(s) == [i \in 1..Len(s) |-> LowerChar(s[i])]

\* s[i..j-1] (half-open, positions from 1)
Slice(s, i, j) == SubSeq(s, i, j - 1)

\* w occurs in s starting at position i
OccursAt(s, i, w) ==
    /\ i >= 1
    /\ i + Len(w) - 1 <= Len(s)
    /\ \A k \in 1..Len(w) : s[i + k - 1] = w[k]

\* Python `w in s`
Contains(s, w) == \E i \in 1..(Len(s) + 1) : OccursAt(s, i, w)

\* first position >= i that is not whitespace (greedy \s*)
RECURSIVE SkipSpace(_, _)
SkipSpace(s, i) ==
    IF i <= Len(s) /\ IsSpace(s[i]) THEN SkipSpace(s, i + 1) ELSE i

\* first position >= i that is not a digit (greedy \d*)
RECURSIVE SkipDigits(_, _)
SkipDigits(s, i) ==
    IF i <= Len(s) /\ IsDigit(s[i]) THEN SkipDigits(s, i + 1) ELSE i

\* str.strip()
RECURSIVE StripLeft(_)
StripLeft(s) == IF s # <<>> /\ IsSpace(Head(s)) THEN StripLeft(Tail(s)) ELSE s
RECURSIVE StripRight(_)
StripRight(s) ==
    IF s # <<>> /\ IsSpace(s[Len(s)]) THEN StripRight(SubSeq(s, 1, Len(s) - 1)) ELSE s
Strip(s) == StripRight(StripLeft(s))

\* "\n".join(parts)
RECURSIVE JoinLines(_)
JoinLines(parts) ==
    IF parts = <<>> THEN <<>>
    ELSE IF Len(parts) = 1 THEN parts[1]
    ELSE parts[1] \o <<"\n">> \o JoinLines(Tail(parts))

\* ------------------------------------------------------------------------
\* Dictionaries: a record with a field "keys" naming the keys that are present
\* ------------------------------------------------------------------------

\* dict.get(k, default)
DictGet(d, k, default) == IF k \in d.keys THEN d[k] ELSE default

\* An Optional value is <<>> for None and <<v>> for the value v.
None == <<>>
Some(v) == <<v>>

\* the empty dict {} and {**a, **b} for dicts given as functions on their keys
EmptyDict == <<>>
\* d[k] is None: a key bound to None is listed in the field `nulls` of d
IsNone(d, k) == "nulls" \in DOMAIN d /\ k \in d.nulls
Merge(a, b) == b @@ a

\* ------------------------------------------------------------------------
\* Reference patterns of verify_citations (re.finditer, re.IGNORECASE)
\* ------------------------------------------------------------------------

\* (?:section|sec\.?|§) as the alternatives the matcher tries, in its order
SectionKeywords == << <<"s", "e", "c", "t", "i", "o", "n">>,
                      <<"s", "e", "c", ".">>,
                      <<"s", "e", "c">>,
                      <<"sect_sign">> >>
\* (?:p\.|pp\.|page)
PageKeywords == << <<"p", ".">>, <<"p", "p", ".">>, <<"p", "a", "g", "e">> >>
\* (?:fig\.|figure|table|tbl\.)
FigureKeywords == << <<"f", "i", "g", ".">>,
                     <<"f", "i", "g", "u", "r", "e">>,
                     <<"t", "a", "b", "l", "e">>,
                     <<"t", "b", "l", ".">> >>

section_patterns == [keywords |-> SectionKeywords, numeral |-> "dotted"]
page_patterns == [keywords |-> PageKeywords, numeral |-> "range"]
figure_pattern == [keywords |-> FigureKeywords, numeral |-> "dotted"]

\* end of (?:\.\d+)* when i is the position after a run of digits
RECURSIVE DottedEnd(_, _)
DottedEnd(s, i) ==
    IF i + 1 <= Len(s) /\ s[i] = "." /\ IsDigit(s[i + 1])
    THEN DottedEnd(s, SkipDigits(s, i + 1))
    ELSE i

\* end of (?:\s*[–-]\s*\d+)? when i is the position after a run of digits
RangeEnd(s, i) ==
    LET j == SkipSpace(s, i)
        k == SkipSpace(s, j + 1)
    IN  IF j <= Len(s) /\ s[j] \in {"-", "en_dash"} /\ k <= Len(s) /\ IsDigit(s[k])
        THEN SkipDigits(s, k)
        ELSE i

NoMatch == [start |-> 0, stop |-> 0, gstart |-> 0, gstop |-> 0]

\* the match of pattern pat that starts at position i of s, or NoMatch
MatchAt(pat, s, i) ==
    LET ls == Lower(s)
        ok(kw) == /\ OccursAt(ls, i, kw)
                  /\ LET d == SkipSpace(s, i + Len(kw))
                     IN  d <= Len(s) /\ IsDigit(s[d])
        cands == {n \in DOMAIN pat.keywords : ok(pat.keywords[n])}
    IN  IF cands = {} THEN NoMatch
        ELSE LET n == CHOOSE x \in cands : \A y \in cands : x <= y
                 d == SkipSpace(s, i + Len(pat.keywords[n]))
                 e == SkipDigits(s, d)
             IN  [start |-> i,
                  stop |-> IF pat.numeral = "dotted" THEN DottedEnd(s, e) ELSE RangeEnd(s, e),
                  gstart |-> d,
                  gstop |-> IF pat.numeral = "dotted" THEN DottedEnd(s, e) ELSE RangeEnd(s, e)]

\* re.finditer(pat, s): the non-overlapping matches from position pos on, left to right
RECURSIVE FindIter(_, _, _)
FindIter(pat, s, pos) ==
    IF pos > Len(s) THEN <<>>
    ELSE LET m == MatchAt(pat, s, pos)
         IN  IF m = NoMatch THEN FindIter(pat, s, pos + 1)
             ELSE <<m>> \o FindIter(pat, s, m.stop)

\* match.group(0), match.group(1)
Group0(s, m) == Slice(s, m.start, m.stop)
Group1(s, m) == Slice(s, m.gstart, m.gstop)

\* g.split('.')[0]
RECURSIVE SplitDotFirst(_)
SplitDotFirst(g) ==
    IF g = <<>> \/ Head(g) = "." THEN <<>> ELSE <<Head(g)>> \o SplitDotFirst(Tail(g))

\* the ref_type expression of verify_citations
RefType(g0) == IF "." \in Range(g0) THEN Lower(SplitDotFirst(g0)) ELSE Lower(g0)

\* \b at position p of s (between s[p-1] and s[p])
WordBoundary(s, p) ==
    LET before == p - 1 >= 1 /\ p - 1 <= Len(s) /\ IsWord(s[p - 1])
        after == p >= 1 /\ p <= Len(s) /\ IsWord(s[p])
    IN  before # after

\* re.search(rf'\b{re.escape(ref)}\b', text, re.IGNORECASE)
WholeWordSearch(ref, text) ==
    LET lt == Lower(text)
        lr == Lower(ref)
    IN  \E i \in 1..Len(text) :
            /\ OccursAt(lt, i, lr)
            /\ WordBoundary(text, i)
            /\ WordBoundary(text, i + Len(ref))

\* ------------------------------------------------------------------------
\* difflib.SequenceMatcher(None, a, b).ratio()  (no junk; autojunk needs
\* 200 or more characters)
\* ------------------------------------------------------------------------

\* length of the common run of a from i and b from j inside a[..ahi-1], b[..bhi-1]
RECURSIVE RunLen(_, _, _, _, _, _)
RunLen(a, b, i, j, ahi, bhi) ==
    IF i < ahi /\ j < bhi /\ a[i] = b[j]
    THEN 1 + RunLen(a, b, i + 1, j + 1, ahi, bhi)
    ELSE 0

\* find_longest_match(alo, ahi, blo, bhi): the longest block, earliest in a,
\* then earliest in b; size 0 when there is none
find_longest_match(a, b, alo, ahi, blo, bhi) ==
    LET pairs == (alo..(ahi - 1)) \X (blo..(bhi - 1))
        len == [p \in pairs |-> RunLen(a, b, p[1], p[2], ahi, bhi)]
        sizes == {len[p] : p \in pairs}
        size == CHOOSE k \in sizes : \A m \in sizes : m <= k
        is == {p[1] : p \in {q \in pairs : len[q] = size}}
        i == CHOOSE x \in is : \A y \in is : x <= y
        js == {p[2] : p \in {q \in pairs : len[q] = size /\ q[1] = i}}
        j == CHOOSE x \in js : \A y \in js : x <= y
    IN  IF size = 0 THEN [i |-> alo, j |-> blo, size |-> 0]
        ELSE [i |-> i, j |-> j, size |-> size]

\* total size of get_matching_blocks() within a[alo..ahi-1], b[blo..bhi-1]
RECURSIVE MatchedSize(_, _, _, _, _, _)
MatchedSize(a, b, alo, ahi, blo, bhi) ==
    IF alo >= ahi \/ blo >= bhi THEN 0
    ELSE LET m == find_longest_match(a, b, alo, ahi, blo, bhi)
         IN  IF m.size = 0 THEN 0
             ELSE m.size
                  + MatchedSize(a, b, alo, m.i, blo, m.j)
                  + MatchedSize(a, b, m.i + m.size, ahi, m.j + m.size, bhi)

\* ratio() = 2.0 * matches / (len(a) + len(b)), 1.0 for two empty strings
Ratio(a, b) ==
    IF Len(a) + Len(b) = 0 THEN ROne
    ELSE Rat(2 * MatchedSize(a, b, 1, Len(a) + 1, 1, Len(b) + 1), Len(a) + Len(b))

\* ------------------------------------------------------------------------
\* QAAgent.generate_answer (agents/qa_agent.py)
\* ------------------------------------------------------------------------

AnswerTag == <<"A", "n", "s", "w", "e", "r", ":">>
CitationsTag == <<"C", "i", "t", "a", "t", "i", "o", "n", "s", ":">>
NoChunksAnswer == <<"C", "o", "u", "l", "d", " ", "n", "o", "t", " ", "f", "i", "n", "d", " ", "r", "e", "l", "e", "v", "a", "n", "t", " ", "i", "n", "f", "o", "r", "m", "a", "t", "i", "o", "n", " ", "i", "n", " ", "t", "h", "e", " ", "p", "a", "p", "e", "r", ".">>
NoChunksCitations == <<"N", "o", " ", "r", "e", "l", "e", "v", "a", "n", "t", " ", "s", "e", "c", "t", "i", "o", "n", "s", " ", "f", "o", "u", "n", "d">>
NotProvided == <<"N", "o", "t", " ", "p", "r", "o", "v", "i", "d", "e", "d">>

\* first position >= i that is not a newline (\n*)
RECURSIVE SkipNewlines(_, _)
SkipNewlines(s, i) ==
    IF i <= Len(s) /\ s[i] = "\n" THEN SkipNewlines(s, i + 1) ELSE i

\* the lookahead (?=\n*Citations:|$) at position p
AnswerStop(s, p) ==
    \/ OccursAt(s, SkipNewlines(s, p), CitationsTag)
    \/ p = Len(s) + 1
    \/ p = Len(s) /\ s[p] = "\n"

\* re.search(r"Answer:\s*(.*?)(?=\n*Citations:|$)", response, re.DOTALL) and
\* answer_match.group(1).strip() if answer_match else response
ParseAnswer(response) ==
    LET starts == {i \in 1..Len(response) : OccursAt(response, i, AnswerTag)}
    IN  IF starts = {} THEN response
        ELSE LET i == CHOOSE x \in starts : \A y \in starts : x <= y
                 c == SkipSpace(response, i + Len(AnswerTag))
                 stops == {p \in c..(Len(response) + 1) : AnswerStop(response, p)}
                 e == CHOOSE x \in stops : \A y \in stops : x <= y
             IN  Strip(Slice(response, c, e))

\* re.search(r"Citations:\s*(.*)", response) and
\* citation_match.group(1).strip() if citation_match else "Not provided"
ParseCitations(response) ==
    LET starts == {i \in 1..Len(response) : OccursAt(response, i, CitationsTag)}
    IN  IF starts = {} THEN NotProvided
        ELSE LET i == CHOOSE x \in starts : \A y \in starts : x <= y
                 c == SkipSpace(response, i + Len(CitationsTag))
                 nls == {p \in c..Len(response) : response[p] = "\n"} \cup {Len(response) + 1}
                 e == CHOOSE x \in nls : \A y \in nls : x <= y
             IN  Strip(Slice(response, c, e))

\* generate_answer(state) when the chain call ends with `outcome`:
\* [kind |-> "ok", response |-> text] or [kind |-> "raise", error |-> message].
\* The function catches every Exception of the chain itself, so it returns
\* a mapping in both cases.
generate_answer(st, outcome) ==
    LET retrieved_chunks == DictGet(st, "retrieved_chunks", <<>>)
        metadata == DictGet(st, "metadata", EmptyDict)
        chunk_index(c) == DictGet(DictGet(c, "metadata", [keys |-> {}]), "chunk_index", "None")
    IN  IF retrieved_chunks = <<>>
        THEN [keys |-> {"answer", "citations", "metadata"},
              answer |-> NoChunksAnswer,
              citations |-> NoChunksCitations,
              metadata |-> Merge(metadata, ("answer_generated" :> FALSE)
                                           @@ ("error" :> "No relevant chunks retrieved"))]
        ELSE IF outcome.kind = "raise"
        THEN [keys |-> {"error", "metadata"},
              error |-> <<"Generate failed: ", outcome.error>>,
              metadata |-> ("status" :> "failed") @@ ("error_stage" :> "generate")
                           @@ ("answer" :> <<>>) @@ ("citations" :> <<>>)
                           @@ ("retrieved_chunks" :> retrieved_chunks)]
        ELSE [keys |-> {"answer", "citations", "retrieved_chunks", "metadata"},
              answer |-> ParseAnswer(outcome.response),
              citations |-> ParseCitations(outcome.response),
              retrieved_chunks |-> retrieved_chunks,
              metadata |-> Merge(metadata,
                  ("answer_generated" :> TRUE)
                  @@ ("chunks_used" :>
                        [i \in 1..Len(retrieved_chunks) |-> chunk_index(retrieved_chunks[i])])
                  @@ ("chunk_relevance_scores" :>
                        [i \in 1..Len(retrieved_chunks) |->
                            DictGet(retrieved_chunks[i], "relevance_score", RZero)]))]

\* ------------------------------------------------------------------------
\* Settings (core/config.py): the three weights are plain float fields
\* ------------------------------------------------------------------------

DefaultWeights == [CITATION_SCORE |-> Rat(4, 10), LLM_SCORE |-> Rat(4, 10),
                   CONSISTENCY_SCORE |-> Rat(2, 10)]

\* Values the environment can give the three fields; Settings() has no
\* validator for them, so every triple of floats is accepted.
WeightConfigs ==
    { DefaultWeights,
      [CITATION_SCORE |-> Rat(3, 10), LLM_SCORE |-> Rat(4, 10), CONSISTENCY_SCORE |-> Rat(3, 10)],
      [CITATION_SCORE |-> Rat(-1, 2), LLM_SCORE |-> Rat(1, 1), CONSISTENCY_SCORE |-> Rat(1, 1)] }

\* ------------------------------------------------------------------------
\* Inputs
\* ------------------------------------------------------------------------

C_empty == <<>>
C_none == <<"N", "o", "n", "e">>
C_not_provided == <<"N", "o", "t", " ", "p", "r", "o", "v", "i", "d", "e", "d">>
C_section == <<"s", "e", "e", " ", "s", "e", "c", "t", "i", "o", "n", " ", "3", ".", "1">>
C_figure == <<"F", "i", "g", "u", "r", "e", " ", "9">>
C_mixed == <<"p", ".", " ", "5", ",", " ", "S", "e", "c", ".", " ", "2">>
C_norefs == <<"M", "e", "t", "h", "o", "d", "s", " ", "p", "a", "r", "t">>
CitationInputs == {C_empty, C_none, C_not_provided, C_section, C_figure, C_mixed, C_norefs}

T_paper == <<"I", "n", " ", "3", ".", "1", " ", "s", "e", "e", " ", "p", "a", "g", "e", " ", "5">>
T_other == <<"v", "1", "3", ".", "1", "0", " ", "o", "n", "l", "y">>
TextInputs == {T_paper, T_other}

Chunk(content, idx, score) ==
    [keys |-> {"content", "metadata", "relevance_score"},
     content |-> content,
     metadata |-> [keys |-> {"chunk_index"}, chunk_index |-> idx],
     relevance_score |-> score]
K_table == Chunk(<<"T", "a", "b", "l", "e", " ", "2", " ", "i", "n", " ", "3", ".", "1">>, 0, Rat(9, 10))
K_fig == Chunk(<<"f", "i", "g", " ", "9">>, 1, Rat(7, 10))
ChunkInputs == {<<>>, <<K_table>>, <<K_table, K_fig>>}

A_long == <<"I", "t", " ", "i", "m", "p", "r", "o", "v", "e", "s", " ", "B", "L", "E", "U">>
A_short == <<"Y", "e", "s", ".">>
AnswerInputs == {<<>>, A_short, A_long}

Q_main == <<"W", "h", "a", "t", " ", "i", "m", "p", "r", "o", "v", "e", "s", "?">>

\* raw responses of the answer-generation chain
R_same == <<"A", "n", "s", "w", "e", "r", ":", " ", "I", "t", " ", "i", "m", "p", "r", "o", "v", "e", "s", " ", "B", "L", "E", "U", "\n", "C", "i", "t", "a", "t", "i", "o", "n", "s", ":", " ", "S", "e", "c", ".", " ", "2">>
R_low == <<"N", "o", " ", "g", "a", "i", "n", " ", "a", "t", " ", "a", "l", "l">>
R_short == <<"A", "n", "s", "w", "e", "r", ":", " ", "I", "t", " ", "i", "s", " ", "n", "o", "t", ".">>
GenerateOutcomes ==
    {[kind |-> "ok", response |-> r] : r \in {R_same, R_low, R_short}}
    \cup {[kind |-> "raise", error |-> "timeout"]}

\* results of the claim-extraction chain: a JSON list of up to MaxClaims claims
ClaimTexts == [n \in 1..MaxClaims |-> <<"claim", n>>]
ExtractOutcomes ==
    {[kind |-> "ok", claims |-> SubSeq(ClaimTexts, 1, n)] : n \in 0..MaxClaims}
    \cup {[kind |-> "raise", error |-> "timeout"]}

\* results of the NLI chain for one claim: a JSON object, possibly without
\* one of its two keys, or an exception
Verdicts == {"SUPPORTED", "CONTRADICTED", "NOT_MENTIONED"}
NLIOutcomes ==
    {[kind |-> "ok",
      nli_result |-> [keys |-> {"verdict", "explanation"}, verdict |-> v,
                      explanation |-> "brief reason"]] : v \in Verdicts}
    \cup {[kind |-> "ok",
           nli_result |-> [keys |-> {"explanation"}, explanation |-> "brief reason"]],
          [kind |-> "ok",
           nli_result |-> [keys |-> {"verdict"}, verdict |-> "SUPPORTED"]],
          [kind |-> "raise", error |-> "timeout"]}

\* ------------------------------------------------------------------------
\* HallucinationDetector.verify_citations
\* ------------------------------------------------------------------------

PlaceholderCitations ==
    { <<"n", "o", "t", " ", "p", "r", "o", "v", "i", "d", "e", "d">>,
      <<"n", "o", "n", "e">>,
      <<"n", "o", " ", "c", "i", "t", "a", "t", "i", "o", "n", "s">>,
      <<"n", "o", " ", "r", "e", "l", "e", "v", "a", "n", "t", " ", "s", "e", "c", "t", "i", "o", "n", "s">>,
      <<"n", "o", "t", " ", "e", "x", "p", "l", "i", "c", "i", "t", "l", "y", " ", "s", "t", "a", "t", "e", "d", " ", "i", "n", " ", "p", "a", "p", "e", "r">> }

AbsenceFloor == Rat(7, 10)

\* lines 40-65: one entry of verification_results per match, in the order
\* section matches, page matches, figure matches
all_matches(citations) ==
    FindIter(section_patterns, citations, 1)
    \o FindIter(page_patterns, citations, 1)
    \o FindIter(figure_pattern, citations, 1)

VerifyReference(citations, curr_match, text, retrieved_chunks) ==
    LET ref == Group1(citations, curr_match)
        ref_type == RefType(Group0(citations, curr_match))
        in_text == ref # <<>> /\ WholeWordSearch(ref, text)
        in_chunk == \E n \in DOMAIN retrieved_chunks :
                        /\ ref # <<>>
                        /\ Contains(Lower(DictGet(retrieved_chunks[n], "content", <<>>)),
                                    Lower(ref))
    IN  [reference |-> ref_type \o <<" ">> \o ref,
         found |-> in_text \/ in_chunk,
         confidence |-> IF in_chunk THEN "high" ELSE IF in_text THEN "medium" ELSE "low",
         type |-> ref_type]

verification_results(st) ==
    LET citations == DictGet(st, "citations", <<>>)
        ms == all_matches(citations)
    IN  [n \in 1..Len(ms) |->
            VerifyReference(citations, ms[n], st.raw_text,
                            DictGet(st, "retrieved_chunks", <<>>))]

\* UnfoundFraction that counts the found references
UnfoundFraction_CountsFound(results) ==
    IF results = <<>> THEN RZero
    ELSE Rat(Cardinality({n \in DOMAIN results : results[n].found}), Len(results))

\* lines 67-70
UnfoundFraction(results) ==
    IF results = <<>> THEN RZero
    ELSE Rat(Cardinality({n \in DOMAIN results : ~results[n].found}), Len(results))

\* CitationPresent that compares with the placeholders case-sensitively
CitationPresent_CaseSensitive(citations) ==
    citations # <<>> /\ citations \notin PlaceholderCitations

\* line 72
CitationPresent(citations) ==
    citations # <<>> /\ Lower(citations) \notin PlaceholderCitations

\* ApplyAbsenceFloor that applies only to an answer longer than 10 characters
ApplyAbsenceFloor_LongAnswer(score, citation_present, answer) ==
    IF ~citation_present /\ Len(answer) > 10 THEN RMax(score, AbsenceFloor) ELSE score

\* lines 73-74
ApplyAbsenceFloor(score, citation_present, answer) ==
    IF ~citation_present /\ answer # <<>> THEN RMax(score, AbsenceFloor) ELSE score

\* line 81
CitationStatus(score) ==
    IF RGt(score, Rat(5, 10)) THEN "high_risk"
    ELSE IF RGt(score, Rat(2, 10)) THEN "medium_risk"
    ELSE "low_risk"

\* The exception verify_citations ends with, "none" when it returns:
\* state["raw_text"] of line 26 needs the key, re.finditer of line 32 needs
\* a string, and so does re.search of line 49, reached once per match.
verify_citations_raises(st) ==
    IF "raw_text" \notin st.keys THEN "KeyError"
    ELSE IF IsNone(st, "citations") THEN "TypeError"
    ELSE IF all_matches(DictGet(st, "citations", <<>>)) # <<>> /\ IsNone(st, "raw_text")
    THEN "TypeError"
    ELSE "none"

verify_citations(st) ==
    LET citations == DictGet(st, "citations", <<>>)
        results == verification_results(st)
        citation_present == CitationPresent(citations)
        hallucination_score ==
            ApplyAbsenceFloor(UnfoundFraction(results), citation_present,
                              DictGet(st, "answer", <<>>))
    IN  [keys |-> {"hallucination_check"},
         hallucination_check |->
            [score |-> hallucination_score,
             verified_citations |-> results,
             citation_present |-> citation_present,
             status |-> CitationStatus(hallucination_score),
             metadata |-> Merge(DictGet(st, "metadata", EmptyDict),
                                ("hallucination_score" :> hallucination_score)
                                @@ ("citations_verified" :> Len(results)))]]

\* ------------------------------------------------------------------------
\* State
\* ------------------------------------------------------------------------

VARIABLES
    settings,           \* core.config.settings: the three weights
    state,              \* the PaperState handed to comprehensive_check
    pc,                 \* position of comprehensive_check
    citation_check,     \* value returned by verify_citations
    llm_check,          \* value returned by verify_claims_with_nli
    consistency_check,  \* value returned by cross_check_answer
    claims,             \* verify_claims_with_nli: the extracted claims
    verifications,      \* verify_claims_with_nli: verdicts obtained so far
    var1_result,        \* cross_check_answer: result of the first regeneration
    oracle_calls,       \* the chain invocations made so far with their outcomes
    result,             \* value returned by comprehensive_check
    exception,          \* exception that left comprehensive_check, or "none"
    first_run,          \* result and calls of an earlier run on the same state
    jobs,               \* the job_status table: job_id -> row
    now,                \* datetime.utcnow()
    last_call,          \* the last call of the job CRUD and what it returned
    node,               \* ResearchAssistant workflow: the node to execute next
    visited,            \* ResearchAssistant workflow: the nodes executed so far
    papers,             \* the research_papers table: arxiv_id -> row
    arxiv_modified,     \* the date arXiv reports as the paper's last modification
    qa_cache,           \* the paper_qa_cache table: its rows
    tasks               \* the deliveries of the analyze_paper task and their positions

vars == <<settings, state, pc, citation_check, llm_check, consistency_check,
          claims, verifications, var1_result, oracle_calls, result, exception,
          first_run, jobs, now, last_call, node, visited, papers, arxiv_modified,
          qa_cache, tasks>>

jobvars == <<jobs, now, last_call>>
servicevars == <<visited, papers, arxiv_modified, qa_cache, tasks>>
detectorvars == <<settings, pc, citation_check, llm_check, consistency_check, claims,
                  verifications, var1_result, oracle_calls, result, exception,
                  first_run>>
checkvars == <<settings, state, pc, citation_check, llm_check, consistency_check,
               claims, verifications, var1_result, oracle_calls, result, exception,
               first_run, node, servicevars>>

NoValue == [keys |-> {}]

InputStates ==
    { [keys |-> {"arxiv_id", "question", "raw_text", "answer", "citations",
                 "retrieved_chunks", "metadata"},
       arxiv_id |-> "1706.03762",
       question |-> Q_main,
       raw_text |-> t,
       answer |-> a,
       citations |-> c,
       retrieved_chunks |-> k,
       metadata |-> ("start_time" :> "t0")] :
      t \in TextInputs, a \in AnswerInputs, c \in CitationInputs, k \in ChunkInputs }

\* States that are not well-formed PaperStates: raw_text missing, raw_text
\* None (with and without a reference in the citations), citations None, and
\* a retrieved chunk without content.
WellFormed ==
    [keys |-> {"arxiv_id", "question", "raw_text", "answer", "citations",
               "retrieved_chunks", "metadata"},
     arxiv_id |-> "1706.03762",
     question |-> Q_main,
     raw_text |-> T_paper,
     answer |-> A_long,
     citations |-> C_mixed,
     retrieved_chunks |-> <<K_table>>,
     metadata |-> ("start_time" :> "t0")]

K_no_content ==
    [keys |-> {"metadata", "relevance_score"},
     metadata |-> [keys |-> {"chunk_index"}, chunk_index |-> 0],
     relevance_score |-> Rat(9, 10)]

MalformedStates ==
    { [k \in DOMAIN WellFormed \ {"raw_text"} |->
          IF k = "keys" THEN WellFormed.keys \ {"raw_text"} ELSE WellFormed[k]],
      [WellFormed EXCEPT !.raw_text = <<>>] @@ [nulls |-> {"raw_text"}],
      [WellFormed EXCEPT !.raw_text = <<>>, !.citations = C_norefs]
          @@ [nulls |-> {"raw_text"}],
      [WellFormed EXCEPT !.citations = <<>>] @@ [nulls |-> {"citations"}],
      [WellFormed EXCEPT !.retrieved_chunks = <<K_no_content>>] }

\* The states QAAgent.generate_answer leaves when no chunk was retrieved
\* (qa_agent.py lines 53-62): its fixed answer and its fallback citations.
NoChunksStates ==
    { [WellFormed EXCEPT !.raw_text = t,
                         !.answer = NoChunksAnswer,
                         !.citations = NoChunksCitations,
                         !.retrieved_chunks = <<>>] : t \in TextInputs }

Init ==
    /\ settings \in WeightConfigs
    /\ state \in InputStates \cup MalformedStates \cup NoChunksStates
    /\ pc = "verify_citations"
    /\ citation_check = NoValue
    /\ llm_check = NoValue
    /\ consistency_check = NoValue
    /\ claims = <<>>
    /\ verifications = <<>>
    /\ var1_result = NoValue
    /\ oracle_calls = <<>>
    /\ result = NoValue
    /\ exception = "none"
    /\ first_run = NoValue
    /\ jobs = <<>>
    /\ now = 1
    /\ last_call = NoValue
    /\ node = "check_hallucination"
    /\ visited = <<>>
    /\ papers = <<>>
    /\ arxiv_modified = 1
    /\ qa_cache = <<>>
    /\ tasks = <<>>

\* ------------------------------------------------------------------------
\* comprehensive_check, line 231: verify_citations
\* ------------------------------------------------------------------------

VerifyCitations ==
    /\ pc = "verify_citations"
    /\ IF verify_citations_raises(state) = "none"
       THEN /\ citation_check' = verify_citations(state)
            /\ pc' = "verify_claims"
            /\ exception' = exception
       ELSE /\ citation_check' = citation_check
            /\ pc' = "raised"
            /\ exception' = verify_citations_raises(state)
    /\ UNCHANGED <<node, servicevars, jobvars, first_run, settings, state, llm_check, consistency_check, claims,
                   verifications, var1_result, oracle_calls, result>>

\* ------------------------------------------------------------------------
\* comprehensive_check, line 232: verify_claims_with_nli
\* ------------------------------------------------------------------------

\* MissingAnswerOrContext that looks at the answer only
MissingAnswerOrContext_AnswerOnly(st) ==
    DictGet(st, "answer", <<>>) = <<>>

\* lines 94 and 149
MissingAnswerOrContext(st) ==
    DictGet(st, "answer", <<>>) = <<>> \/ DictGet(st, "retrieved_chunks", <<>>) = <<>>

\* line 102
Context(retrieved_chunks) ==
    JoinLines([n \in 1..Len(retrieved_chunks) |->
                  DictGet(retrieved_chunks[n], "content", <<>>)])

\* lines 95-100
LLMSkipped ==
    [keys |-> {"llm_verification"},
     llm_verification |-> [keys |-> {"status", "reason"},
                           status |-> "skipped",
                           reason |-> "Missing answer or context"]]

\* lines 137-139
LLMFailed(e) ==
    [keys |-> {"llm_verification"},
     llm_verification |-> [keys |-> {"status", "reason"},
                           status |-> "failed",
                           reason |-> e]]

\* SupportedCount that takes every verdict but CONTRADICTED as support
SupportedCount_NotContradicted(vs) ==
    Cardinality({n \in DOMAIN vs : vs[n].verdict # "CONTRADICTED"})

\* line 120
SupportedCount(vs) == Cardinality({n \in DOMAIN vs : vs[n].verdict = "SUPPORTED"})

\* line 121
LLMHallucinationScore(vs) ==
    IF vs # <<>> THEN RSub(ROne, Rat(SupportedCount(vs), Len(vs))) ELSE RHalf

\* lines 120-135
LLMVerified(st, vs) ==
    [keys |-> {"llm_verification", "metadata"},
     llm_verification |-> [keys |-> {"verifications", "supported_claims",
                                     "total_claims", "hallucination_score"},
                           verifications |-> vs,
                           supported_claims |-> SupportedCount(vs),
                           total_claims |-> Len(vs),
                           hallucination_score |-> LLMHallucinationScore(vs)],
     metadata |-> Merge(DictGet(st, "metadata", EmptyDict),
                        "llm_verification_score" :> LLMHallucinationScore(vs))]

VerifyClaimsSkipped ==
    /\ pc = "verify_claims"
    /\ MissingAnswerOrContext(state)
    /\ llm_check' = LLMSkipped
    /\ pc' = "cross_check"
    /\ UNCHANGED <<node, servicevars, jobvars, first_run, exception, settings, state, citation_check, consistency_check, claims,
                   verifications, var1_result, oracle_calls, result>>

\* lines 102-110: the claim-extraction chain returns or raises
ExtractClaims(outcome) ==
    /\ pc = "verify_claims"
    /\ ~MissingAnswerOrContext(state)
    /\ oracle_calls' = Append(oracle_calls, [oracle |-> "claims_chain",
                                             answer |-> state.answer,
                                             outcome |-> outcome])
    /\ verifications' = <<>>
    /\ IF outcome.kind = "raise"
       THEN /\ llm_check' = LLMFailed(outcome.error)
            /\ claims' = <<>>
            /\ pc' = "cross_check"
       ELSE /\ claims' = outcome.claims
            /\ IF outcome.claims = <<>>
               THEN /\ llm_check' = LLMVerified(state, <<>>)
                    /\ pc' = "cross_check"
               ELSE /\ llm_check' = llm_check
                    /\ pc' = "verify_claim"
    /\ UNCHANGED <<node, servicevars, jobvars, first_run, exception, settings, state, citation_check, consistency_check,
                   var1_result, result>>

\* lines 111-135: the NLI chain returns or raises for the next claim
VerifyClaim(outcome) ==
    /\ pc = "verify_claim"
    /\ LET claim == claims[Len(verifications) + 1]
           failure ==
               IF outcome.kind = "raise" THEN outcome.error
               ELSE IF "verdict" \notin outcome.nli_result.keys THEN "'verdict'"
               ELSE IF "explanation" \notin outcome.nli_result.keys THEN "'explanation'"
               ELSE "no"
           vs == Append(verifications,
                        [claim |-> claim,
                         verdict |-> outcome.nli_result.verdict,
                         explanation |-> outcome.nli_result.explanation])
       IN  /\ oracle_calls' = Append(oracle_calls,
                                     [oracle |-> "nli_chain", claim |-> claim,
                                      context |-> Context(state.retrieved_chunks),
                                      outcome |-> outcome])
           /\ IF failure # "no"
              THEN /\ llm_check' = LLMFailed(failure)
                   /\ verifications' = verifications
                   /\ pc' = "cross_check"
              ELSE /\ verifications' = vs
                   /\ IF Len(vs) = Len(claims)
                      THEN /\ llm_check' = LLMVerified(state, vs)
                           /\ pc' = "cross_check"
                      ELSE /\ llm_check' = llm_check
                           /\ pc' = "verify_claim"
    /\ UNCHANGED <<node, servicevars, jobvars, first_run, exception, settings, state, citation_check, consistency_check, claims,
                   var1_result, result>>

\* ------------------------------------------------------------------------
\* comprehensive_check, line 233: cross_check_answer
\* ------------------------------------------------------------------------

MinAnswerLen == 10

\* lines 150-156
ConsistencySkipped ==
    [keys |-> {"consistency_check"},
     consistency_check |-> [keys |-> {"average_similarity", "status", "reason"},
                            average_similarity |-> RZero,
                            status |-> "skipped",
                            reason |-> "Missing answer or context"]]

\* lines 174-181
ConsistencyError(e) ==
    [keys |-> {"consistency_check"},
     consistency_check |-> [keys |-> {"average_similarity", "status", "error"},
                            average_similarity |-> RZero,
                            status |-> "error",
                            error |-> e]]

\* lines 163-166
variation_state(st) ==
    [keys |-> {"question", "retrieved_chunks"},
     question |-> st.question,
     retrieved_chunks |-> SubSeq(st.retrieved_chunks, 1, 1)]

\* IsValidAnswer that also keeps an answer of exactly MinAnswerLen characters
IsValidAnswer_AtLeast(a) == a # <<>> /\ Len(a) >= MinAnswerLen

\* line 184
IsValidAnswer(a) == a # <<>> /\ Len(a) > MinAnswerLen
\* ValidAnswers that keeps the original answer whatever its length
ValidAnswers_KeepsOriginal(answers) ==
    <<Head(answers)>> \o SelectSeq(Tail(answers), IsValidAnswer)

ValidAnswers(answers) == SelectSeq(answers, IsValidAnswer)

\* lines 195-199: the pairs (i, j), i < j, in the order of the two loops
RECURSIVE PairsFrom(_, _, _)
PairsFrom(i, j, n) ==
    IF i >= n THEN <<>>
    ELSE IF j > n THEN PairsFrom(i + 1, i + 2, n)
    ELSE <<<<i, j>>>> \o PairsFrom(i, j + 1, n)

\* Every text that can reach the comparison of line 198: the answers of the
\* input states and the answers parsed from the responses, lower-cased.
ComparableAnswers ==
    {Lower(a) : a \in AnswerInputs}
    \cup {Lower(ParseAnswer(o.response)) : o \in {x \in GenerateOutcomes : x.kind = "ok"}}

\* SequenceMatcher(None, a, b).ratio() for each pair of them, as the set of
\* the triples <<a, b, ratio>>
RatioTable == {<<p[1], p[2], Ratio(p[1], p[2])>> : p \in ComparableAnswers \X ComparableAnswers}
RatioOf(a, b) == (CHOOSE t \in RatioTable : t[1] = a /\ t[2] = b)[3]

Similarities(valid_answers) ==
    LET ps == PairsFrom(1, 2, Len(valid_answers))
    IN  [n \in 1..Len(ps) |->
            RatioOf(Lower(valid_answers[ps[n][1]]), Lower(valid_answers[ps[n][2]]))]

\* line 201
AvgSimilarity(similarities) ==
    IF similarities # <<>> THEN RDivInt(RSum(similarities), Len(similarities)) ELSE RZero

\* lines 203-210
ConsistencyStatus(avg_similarity) ==
    IF RGt(avg_similarity, Rat(8, 10)) THEN "highly_consistent"
    ELSE IF RGt(avg_similarity, Rat(6, 10)) THEN "moderately_consistent"
    ELSE IF RGt(avg_similarity, Rat(4, 10)) THEN "low_consistency"
    ELSE "inconsistent"

\* lines 172-226, given the two values returned by generate_answer
ConsistencyOf(st, var1, var2) ==
    LET original_answer == DictGet(st, "answer", <<>>)
        var1_answer == DictGet(var1, "answer", <<>>)
        var2_answer == DictGet(var2, "answer", <<>>)
        valid_answers == ValidAnswers(<<original_answer, var1_answer, var2_answer>>)
        similarities == Similarities(valid_answers)
        avg_similarity == AvgSimilarity(similarities)
    IN  IF Len(valid_answers) < 2
        THEN [keys |-> {"consistency_check"},
              consistency_check |->
                  [keys |-> {"average_similarity", "status", "valid_answers"},
                   average_similarity |-> RZero,
                   status |-> "insufficient_data",
                   valid_answers |-> Len(valid_answers)]]
        ELSE [keys |-> {"consistency_check", "metadata"},
              consistency_check |->
                  [keys |-> {"average_similarity", "status", "variation_count",
                             "pairwise_similarities", "original_answer_length",
                             "variation_1_length", "variation_2_length"},
                   average_similarity |-> avg_similarity,
                   status |-> ConsistencyStatus(avg_similarity),
                   variation_count |-> Len(valid_answers),
                   pairwise_similarities |-> similarities,
                   original_answer_length |-> Len(original_answer),
                   variation_1_length |-> Len(var1_answer),
                   variation_2_length |-> Len(var2_answer)],
              metadata |-> Merge(DictGet(st, "metadata", EmptyDict),
                                 "answer_consistency" :> avg_similarity)]

\* CrossCheckSkipped that hands over to the aggregator without a result
CrossCheckSkipped_NoResult ==
    /\ pc = "cross_check"
    /\ MissingAnswerOrContext(state)
    /\ pc' = "aggregate"
    /\ UNCHANGED <<node, servicevars, jobvars, first_run, exception, settings, state, citation_check,
                   llm_check, consistency_check, claims, verifications, var1_result,
                   oracle_calls, result>>

CrossCheckSkipped ==
    /\ pc = "cross_check"
    /\ MissingAnswerOrContext(state)
    /\ consistency_check' = ConsistencySkipped
    /\ pc' = "aggregate"
    /\ UNCHANGED <<node, servicevars, jobvars, first_run, exception, settings, state, citation_check, llm_check, claims,
                   verifications, var1_result, oracle_calls, result>>

\* lines 158-161: QAAgent() builds an LLM client and a VectorStoreManager;
\* both constructors can raise, outside the try block of cross_check_answer,
\* and the exception then leaves comprehensive_check.
CreateAgents(constructed) ==
    /\ pc = "cross_check"
    /\ ~MissingAnswerOrContext(state)
    /\ pc' = IF constructed THEN "variation_1" ELSE "raised"
    /\ exception' = IF constructed THEN exception ELSE "RuntimeError"
    /\ UNCHANGED <<node, servicevars, jobvars, first_run, settings, state, citation_check, llm_check, consistency_check,
                   claims, verifications, var1_result, oracle_calls, result>>

\* Variation1 that writes the regenerated answer into the state it was given
Variation1_StoresAnswer(outcome) ==
    /\ pc = "variation_1"
    /\ var1_result' = generate_answer(state, outcome)
    /\ state' = [state EXCEPT !.answer = DictGet(generate_answer(state, outcome),
                                                 "answer", <<>>)]
    /\ oracle_calls' = Append(oracle_calls,
                              [oracle |-> "qa_chain", temperature |-> Rat(3, 10),
                               chunks |-> Len(state.retrieved_chunks),
                               outcome |-> outcome])
    /\ pc' = "variation_2"
    /\ UNCHANGED <<node, servicevars, jobvars, first_run, exception, settings, citation_check, llm_check,
                   consistency_check, claims, verifications, result>>

\* line 169: generate_answer(state) of the first agent (temperature 0.3)
Variation1(outcome) ==
    /\ pc = "variation_1"
    /\ var1_result' = generate_answer(state, outcome)
    /\ oracle_calls' = Append(oracle_calls,
                              [oracle |-> "qa_chain", temperature |-> Rat(3, 10),
                               chunks |-> Len(state.retrieved_chunks),
                               outcome |-> outcome])
    /\ pc' = "variation_2"
    /\ UNCHANGED <<node, servicevars, jobvars, first_run, exception, settings, state, citation_check, llm_check, consistency_check,
                   claims, verifications, result>>

\* lines 170-226: generate_answer(variation_state) of the second agent, then
\* the similarity of the answers
Variation2(outcome) ==
    /\ pc = "variation_2"
    /\ LET var2_result == generate_answer(variation_state(state), outcome)
       IN  consistency_check' = ConsistencyOf(state, var1_result, var2_result)
    /\ oracle_calls' = Append(oracle_calls,
                              [oracle |-> "qa_chain", temperature |-> RZero,
                               chunks |-> Len(variation_state(state).retrieved_chunks),
                               outcome |-> outcome])
    /\ pc' = "aggregate"
    /\ UNCHANGED <<node, servicevars, jobvars, first_run, exception, settings, state, citation_check, llm_check, claims,
                   verifications, var1_result, result>>

\* ------------------------------------------------------------------------
\* comprehensive_check, lines 235-272: the risk aggregator
\* ------------------------------------------------------------------------

\* RiskTier with a non-strict comparison at 0.7
RiskTier_NonStrict(final_score) ==
    IF RLe(Rat(7, 10), final_score) THEN "CRITICAL"
    ELSE IF RGt(final_score, Rat(5, 10)) THEN "HIGH"
    ELSE IF RGt(final_score, Rat(3, 10)) THEN "MEDIUM"
    ELSE "LOW"

\* lines 242-249
RiskTier(final_score) ==
    IF RGt(final_score, Rat(7, 10)) THEN "CRITICAL"
    ELSE IF RGt(final_score, Rat(5, 10)) THEN "HIGH"
    ELSE IF RGt(final_score, Rat(3, 10)) THEN "MEDIUM"
    ELSE "LOW"

\* FinalScore that subtracts the consistency term
FinalScore_SubtractsConsistency(citation_score, llm_score, consistency_score, weights) ==
    RSub(RAdd(RMul(citation_score, weights.citation),
              RMul(llm_score, weights.llm)),
         RMul(consistency_score, weights.consistency))

\* line 240
FinalScore(citation_score, llm_score, consistency_score, weights) ==
    RAdd(RAdd(RMul(citation_score, weights.citation),
              RMul(llm_score, weights.llm)),
         RMul(consistency_score, weights.consistency))

\* line 235
CitationScoreOf(cc) == cc.hallucination_check.score
\* LLMScoreOf with 0 as the default for a missing hallucination_score
LLMScoreOf_ZeroDefault(lc) ==
    DictGet(DictGet(lc, "llm_verification", NoValue), "hallucination_score", RZero)

\* line 236
LLMScoreOf(lc) ==
    DictGet(DictGet(lc, "llm_verification", NoValue), "hallucination_score", RHalf)
\* ConsistencyScoreOf that forgets to invert the similarity
ConsistencyScoreOf_NotInverted(kc) == kc.consistency_check.average_similarity

\* line 237
ConsistencyScoreOf(kc) == RSub(ROne, kc.consistency_check.average_similarity)

comprehensive_result(st, cfg, cc, lc, kc) ==
    LET citation_score == CitationScoreOf(cc)
        llm_score == LLMScoreOf(lc)
        consistency_score == ConsistencyScoreOf(kc)
        weights == [citation |-> cfg.CITATION_SCORE, llm |-> cfg.LLM_SCORE,
                    consistency |-> cfg.CONSISTENCY_SCORE]
        final_score == FinalScore(citation_score, llm_score, consistency_score, weights)
        overall_risk == RiskTier(final_score)
    IN  [keys |-> {"comprehensive_hallucination_check", "metadata"},
         comprehensive_hallucination_check |->
            [overall_score |-> final_score,
             overall_risk |-> overall_risk,
             component_scores |-> [citation_verification |-> citation_score,
                                   llm_verification |-> llm_score,
                                   consistency_check |-> consistency_score],
             citation_details |-> cc.hallucination_check,
             llm_details |-> DictGet(lc, "llm_verification", NoValue),
             consistency_details |-> kc.consistency_check],
         metadata |->
            Merge(Merge(Merge(Merge(Merge(DictGet(st, "metadata", EmptyDict),
                                          DictGet(cc, "metadata", EmptyDict)),
                                    DictGet(lc, "metadata", EmptyDict)),
                              DictGet(kc, "metadata", EmptyDict)),
                        "final_hallucination_score" :> final_score),
                  "hallucination_risk" :> overall_risk)]

Aggregate ==
    /\ pc = "aggregate"
    /\ result' = comprehensive_result(state, settings, citation_check, llm_check,
                                      consistency_check)
    /\ pc' = "done"
    /\ UNCHANGED <<node, servicevars, jobvars, first_run, exception, settings, state, citation_check, llm_check, consistency_check,
                   claims, verifications, var1_result, oracle_calls>>

\* ------------------------------------------------------------------------
\* Specification
\* ------------------------------------------------------------------------

Next ==
    \/ VerifyCitations
    \/ VerifyClaimsSkipped
    \/ \E outcome \in ExtractOutcomes : ExtractClaims(outcome)
    \/ \E outcome \in NLIOutcomes : VerifyClaim(outcome)
    \/ CrossCheckSkipped
    \/ \E constructed \in BOOLEAN : CreateAgents(constructed)
    \/ \E outcome \in GenerateOutcomes : Variation1(outcome)
    \/ \E outcome \in GenerateOutcomes : Variation2(outcome)
    \/ Aggregate

Spec == Init /\ [][Next]_vars

\* ------------------------------------------------------------------------
\* comprehensive_check called a second time on the same state, the chains
\* being stubs that answer the n-th call of a run as in the first run
\* ------------------------------------------------------------------------

\* comprehensive_check has returned and is called again: its locals keep
\* whatever the first call left in them until the code assigns them again
Restart ==
    /\ pc = "done"
    /\ first_run = NoValue
    /\ first_run' = [keys |-> {"result", "oracle_calls", "citation_check"},
                     result |-> result,
                     oracle_calls |-> oracle_calls,
                     citation_check |-> citation_check]
    /\ oracle_calls' = <<>>
    /\ pc' = "verify_citations"
    /\ UNCHANGED <<node, servicevars, jobvars, settings, state, citation_check, llm_check,
                   consistency_check, claims, verifications, var1_result, result,
                   exception>>

\* the stub of `oracle` answers its next call with `outcome`
Replayed(oracle, outcome) ==
    IF first_run = NoValue THEN TRUE
    ELSE LET n == Len(oracle_calls) + 1
         IN  (n \in DOMAIN first_run.oracle_calls
              /\ first_run.oracle_calls[n].oracle = oracle)
                 => outcome = first_run.oracle_calls[n].outcome

NextTwice ==
    \/ VerifyCitations
    \/ VerifyClaimsSkipped
    \/ \E outcome \in ExtractOutcomes :
          Replayed("claims_chain", outcome) /\ ExtractClaims(outcome)
    \/ \E outcome \in NLIOutcomes :
          Replayed("nli_chain", outcome) /\ VerifyClaim(outcome)
    \/ CrossCheckSkipped
    \/ \E constructed \in BOOLEAN :
          (first_run = NoValue \/ constructed) /\ CreateAgents(constructed)
    \/ \E outcome \in GenerateOutcomes :
          Replayed("qa_chain", outcome) /\ Variation1(outcome)
    \/ \E outcome \in GenerateOutcomes :
          Replayed("qa_chain", outcome) /\ Variation2(outcome)
    \/ Aggregate
    \/ Restart

\* the runs that are repeated: the default weights and the source text T_paper
InitTwice ==
    /\ Init
    /\ settings = DefaultWeights
    /\ DictGet(state, "raw_text", <<>>) = T_paper

SpecTwice == InitTwice /\ [][NextTwice]_vars

\* ------------------------------------------------------------------------
\* ResearchAssistant workflow (agents/research_agent.py lines 50-74), from the
\* node check_hallucination on: check_hallucination -> check_consistency ->
\* comprehensive_check -> END
\* ------------------------------------------------------------------------

\* The graph writes the mapping a node returns into the workflow state, key
\* by key, before the next node runs.
MergeState(st, update) ==
    LET ks == st.keys \cup update.keys
    IN  [k \in ks \cup {"keys"} |->
            IF k = "keys" THEN ks
            ELSE IF k \in update.keys THEN update[k]
            ELSE st[k]]

\* node check_hallucination: self.detector.verify_citations
NodeCheckHallucination ==
    /\ node = "check_hallucination"
    /\ state' = MergeState(state, verify_citations(state))
    /\ node' = "check_consistency"
    /\ pc' = "cross_check"
    /\ UNCHANGED <<servicevars, jobvars, first_run, exception, settings, citation_check, llm_check,
                   consistency_check, claims, verifications, var1_result,
                   oracle_calls, result>>

\* node check_consistency: self.detector.cross_check_answer has returned
NodeCheckConsistency ==
    /\ node = "check_consistency"
    /\ pc = "aggregate"
    /\ state' = MergeState(state, consistency_check)
    /\ node' = "comprehensive_check"
    /\ pc' = "verify_citations"
    /\ UNCHANGED <<servicevars, jobvars, first_run, exception, settings, citation_check, llm_check,
                   consistency_check, claims, verifications, var1_result,
                   oracle_calls, result>>

\* node comprehensive_check: self.detector.comprehensive_check has returned
NodeComprehensiveCheck ==
    /\ node = "comprehensive_check"
    /\ pc = "done"
    /\ state' = MergeState(state, result)
    /\ node' = "END"
    /\ pc' = "end"
    /\ UNCHANGED <<servicevars, jobvars, first_run, exception, settings, citation_check, llm_check,
                   consistency_check, claims, verifications, var1_result,
                   oracle_calls, result>>

InComprehensiveCheck == node = "comprehensive_check"
InCrossCheck == node \in {"check_consistency", "comprehensive_check"}

NextWorkflow ==
    \/ NodeCheckHallucination
    \/ InCrossCheck /\ CrossCheckSkipped
    \/ \E constructed \in BOOLEAN : InCrossCheck /\ CreateAgents(constructed)
    \/ \E outcome \in GenerateOutcomes : InCrossCheck /\ Variation1(outcome)
    \/ \E outcome \in GenerateOutcomes : InCrossCheck /\ Variation2(outcome)
    \/ NodeCheckConsistency
    \/ InComprehensiveCheck /\ VerifyCitations
    \/ InComprehensiveCheck /\ VerifyClaimsSkipped
    \/ \E outcome \in ExtractOutcomes : InComprehensiveCheck /\ ExtractClaims(outcome)
    \/ \E outcome \in NLIOutcomes : InComprehensiveCheck /\ VerifyClaim(outcome)
    \/ InComprehensiveCheck /\ Aggregate
    \/ NodeComprehensiveCheck

\* the workflow runs that are explored: the default weights, the source text
\* T_paper and the states generate_answer can have left
InitWorkflow ==
    /\ Init
    /\ settings = DefaultWeights
    /\ state \in InputStates \cup NoChunksStates
    /\ state.raw_text = T_paper

SpecWorkflow == InitWorkflow /\ [][NextWorkflow]_vars

\* ------------------------------------------------------------------------
\* ResearchAssistant workflow from its entry point to retrieve_context
\* (agents/research_agent.py lines 54-68 and 78-112)
\* ------------------------------------------------------------------------

ArxivId == "1706.03762"
Dates == 1..MaxTime
NodeOutcomes == {"ok", "raise"}

\* research_agent.py lines 104-110: GraphInput(...).dict()
InitialState ==
    [keys |-> {"arxiv_id", "question", "metadata"},
     arxiv_id |-> ArxivId,
     question |-> Q_main,
     metadata |-> ("start_time" :> "t0")]

\* state.py lines 34-43
create_error_state(error_msg, stage, kwargs) ==
    [keys |-> {"error", "metadata"},
     error |-> error_msg,
     metadata |-> Merge(("status" :> "failed") @@ ("error_stage" :> stage), kwargs)]

\* a row of research_papers last modified at date d
ResearchPaper(d) ==
    [arxiv_id |-> ArxivId, title |-> "Attention", authors |-> <<"Vaswani">>,
     abstract |-> "abstract", summary_json |-> "summary", chunk_count |-> 1,
     last_modified_date |-> d]

\* crud.py get_paper_by_arxiv_id: the row, or None
get_paper_by_arxiv_id(arxiv_id) ==
    IF arxiv_id \in DOMAIN papers THEN Some(papers[arxiv_id]) ELSE None

\* fetcher.py lines 15-33: the keys fetch_paper returns
fetch_paper(st, outcome) ==
    IF outcome = "ok"
    THEN [keys |-> {"raw_text", "title", "authors", "metadata"},
          raw_text |-> T_paper, title |-> "Attention", authors |-> <<"Vaswani">>,
          metadata |-> ("fetched_at" :> "t1") @@ ("status" :> "success")]
    ELSE create_error_state("Fetch failed", "fetch", EmptyDict)

NotCached(st, reason) ==
    [keys |-> {"paper_cached", "paper_current", "metadata"},
     paper_cached |-> FALSE, paper_current |-> FALSE,
     metadata |-> Merge(DictGet(st, "metadata", EmptyDict),
                        "cache_check_error" :> reason)]

\* cache_loader_agent.py lines 31-88
check_and_load(st, outcome) ==
    IF "error" \in st.keys
    THEN NotCached(st, st.error)
    ELSE IF "last_modified_date" \notin st.keys
    THEN NotCached(st, "Missing last_modified_date in state")
    ELSE IF outcome = "raise"
    THEN NotCached(st, "database error")
    ELSE LET paper == get_paper_by_arxiv_id(st.arxiv_id)
         IN  IF paper = None
             THEN [keys |-> {"paper_cached", "paper_current"},
                   paper_cached |-> FALSE, paper_current |-> FALSE]
             ELSE [keys |-> {"paper_cached", "paper_current"},
                   paper_cached |-> TRUE,
                   paper_current |->
                       paper[1].last_modified_date >= st.last_modified_date]

\* cache_loader_agent.py lines 91-142; outcome "raise": the text of the paper
\* could not be obtained
load_cached_paper(st, outcome) ==
    LET paper == get_paper_by_arxiv_id(st.arxiv_id)
    IN  IF paper = None
        THEN create_error_state("Paper not found in cache", "cache_loader", EmptyDict)
        ELSE IF outcome = "raise"
        THEN create_error_state("Failed to get paper text", "cache_loader", EmptyDict)
        ELSE [keys |-> {"title", "authors", "abstract", "summary", "metadata",
                        "raw_text"},
              title |-> paper[1].title, authors |-> paper[1].authors,
              abstract |-> paper[1].abstract, summary |-> paper[1].summary_json,
              metadata |-> Merge(DictGet(st, "metadata", EmptyDict),
                                 ("paper_loaded_from_cache" :> TRUE)
                                 @@ ("chunk_count" :> paper[1].chunk_count)),
              raw_text |-> T_paper]

\* parser.py lines 42-100: parse_sections, then chunk_content
parse(st, outcome) ==
    IF outcome = "ok" /\ "raw_text" \in st.keys
    THEN [keys |-> {"sections", "chunks", "metadata"},
          sections |-> "sections", chunks |-> <<"chunk">>,
          metadata |-> Merge(DictGet(st, "metadata", EmptyDict), "chunk_count" :> 1)]
    ELSE create_error_state("Chunk failed", "chunk", "chunks" :> <<>>)

\* summarizer.py lines 27-64
generate_summary(st, outcome) ==
    IF outcome = "ok" /\ "title" \in st.keys
    THEN [keys |-> {"summary", "metadata"},
          summary |-> "summary",
          metadata |-> Merge(DictGet(st, "metadata", EmptyDict),
                             "summary_generated" :> TRUE)]
    ELSE create_error_state("Generate failed", "generate",
                            ("summary" :> "") @@ ("summary_generated" :> FALSE))

\* vectorstore_agent.py lines 8-40
store_in_vector_db(st, outcome) ==
    IF outcome = "ok" /\ "chunks" \in st.keys
    THEN [keys |-> {"metadata"},
          metadata |-> Merge(DictGet(st, "metadata", EmptyDict),
                             ("vector_store_created" :> TRUE)
                             @@ ("chunk_count" :> Len(st.chunks)))]
    ELSE create_error_state("Vector store failed", "store_vector", EmptyDict)

\* research_agent.py lines 78-93
_route_based_on_cache(st) ==
    IF DictGet(st, "paper_cached", FALSE) /\ DictGet(st, "paper_current", FALSE)
    THEN "use_cache"
    ELSE "process_new"

\* the nodes added in lines 42-47 and what they run
RouteNodes ==
    {"fetch", "check_cache", "load_from_cache", "parse", "summarize", "store_vector"}

NodeOutput(n, st, outcome) ==
    CASE n = "fetch" -> fetch_paper(st, outcome)
      [] n = "check_cache" -> check_and_load(st, outcome)
      [] n = "load_from_cache" -> load_cached_paper(st, outcome)
      [] n = "parse" -> parse(st, outcome)
      [] n = "summarize" -> generate_summary(st, outcome)
      [] n = "store_vector" -> store_in_vector_db(st, outcome)

\* the edges of lines 54-68, followed on the state after the node's update
NextNode(n, st) ==
    CASE n = "fetch" -> "check_cache"
      [] n = "check_cache" ->
             IF _route_based_on_cache(st) = "use_cache"
             THEN "load_from_cache" ELSE "parse"
      [] n = "load_from_cache" -> "retrieve_context"
      [] n = "parse" -> "summarize"
      [] n = "summarize" -> "store_vector"
      [] n = "store_vector" -> "retrieve_context"

\* one step of the compiled graph: run the current node, write what it
\* returns into the state, follow the edge
RunNode(outcome) ==
    /\ node \in RouteNodes
    /\ LET updated == MergeState(state, NodeOutput(node, state, outcome))
       IN  /\ state' = updated
           /\ node' = NextNode(node, updated)
    /\ visited' = Append(visited, node)
    /\ UNCHANGED <<detectorvars, jobvars, papers, arxiv_modified, qa_cache, tasks>>

NextRoute == \E outcome \in NodeOutcomes : RunNode(outcome)

\* ResearchAssistant.run on a paper that the database holds with some
\* modification date, or does not hold
InitRoute ==
    /\ settings = DefaultWeights
    /\ state = InitialState
    /\ pc = "verify_citations"
    /\ citation_check = NoValue
    /\ llm_check = NoValue
    /\ consistency_check = NoValue
    /\ claims = <<>>
    /\ verifications = <<>>
    /\ var1_result = NoValue
    /\ oracle_calls = <<>>
    /\ result = NoValue
    /\ exception = "none"
    /\ first_run = NoValue
    /\ jobs = <<>>
    /\ now = 1
    /\ last_call = NoValue
    /\ node = "fetch"
    /\ visited = <<>>
    /\ papers \in {<<>>} \cup {(ArxivId :> ResearchPaper(d)) : d \in Dates}
    /\ arxiv_modified \in Dates
    /\ qa_cache = <<>>
    /\ tasks = <<>>

SpecRoute == InitRoute /\ [][NextRoute]_vars

\* ------------------------------------------------------------------------
\* Job status CRUD (api/services/crud.py, api/models/job_status.py)
\* ------------------------------------------------------------------------

JobIds == {"job-1", "job-2"}
Statuses == {"pending", "processing", "completed", "failed"}
ResultArgs == {None, Some("answer")}
ErrorArgs == {None, Some("boom")}
ProgressArgs == {None, Some(0), Some(50)}

\* JobStatus(job_id=..., arxiv_id=..., task_name=..., status=...) with the
\* defaults of the model's fields
NewJob(job_id, status, t) ==
    [job_id |-> job_id, arxiv_id |-> Some("1706.03762"),
     task_name |-> Some("process_paper_analysis"), status |-> status,
     result |-> None, error |-> None, progress |-> Some(0),
     created_at |-> Some(t), updated_at |-> Some(t),
     started_at |-> None, completed_at |-> None]

\* crud.py lines 197-217; the commit of a second row with the same primary
\* key fails and leaves the table as it is
create_job(job_id, status) ==
    /\ now < MaxTime
    /\ job_id \notin DOMAIN jobs
    /\ jobs' = (job_id :> NewJob(job_id, status, now)) @@ jobs
    /\ now' = now + 1
    /\ last_call' = [keys |-> {"op", "at", "job_id", "returned"},
                     op |-> "create_job", at |-> now, job_id |-> job_id,
                     returned |-> Some(NewJob(job_id, status, now))]
    /\ UNCHANGED checkvars

\* lines 220-228
get_job_status(job_id) ==
    IF job_id \in DOMAIN jobs THEN Some(jobs[job_id]) ELSE None

\* lines 258-259
StartedAt(job, status, t) ==
    IF status = "processing" /\ job.started_at = None THEN Some(t) ELSE job.started_at

\* CompletedAt that stamps every terminal update
CompletedAt_Overwrites(job, status, t) ==
    IF status \in {"completed", "failed"} THEN Some(t) ELSE job.completed_at

\* lines 261-262
CompletedAt(job, status, t) ==
    IF status \in {"completed", "failed"} /\ job.completed_at = None
    THEN Some(t) ELSE job.completed_at

\* lines 245-262: the row after the assignments
UpdatedJob(job, status, res, error, progress, t) ==
    [job EXCEPT !.status = status,
                !.updated_at = Some(t),
                !.result = IF res # None THEN res ELSE @,
                !.error = IF error # None THEN error ELSE @,
                !.progress = IF progress # None THEN progress ELSE @,
                !.started_at = StartedAt(job, status, t),
                !.completed_at = CompletedAt(job, status, t)]

\* lines 232-271
update_job_status(job_id, status, res, error, progress) ==
    /\ now < MaxTime
    /\ LET job == get_job_status(job_id)
           updated == UpdatedJob(job[1], status, res, error, progress, now)
           call == [keys |-> {"op", "at", "job_id", "status", "result", "error",
                              "progress", "returned"},
                    op |-> "update_job_status", at |-> now, job_id |-> job_id,
                    status |-> status, result |-> res, error |-> error,
                    progress |-> progress]
       IN  IF job = None
           THEN /\ jobs' = jobs
                /\ last_call' = call @@ [returned |-> None]
           ELSE /\ jobs' = [jobs EXCEPT ![job_id] = updated]
                /\ last_call' = call @@ [returned |-> Some(updated)]
    /\ now' = now + 1
    /\ UNCHANGED checkvars

NextJobs ==
    \/ \E job_id \in JobIds, status \in {"pending"} : create_job(job_id, status)
    \/ \E job_id \in JobIds, status \in Statuses, res \in ResultArgs,
          error \in ErrorArgs, progress \in ProgressArgs :
          update_job_status(job_id, status, res, error, progress)

InitJobs ==
    /\ Init
    /\ settings = DefaultWeights
    /\ state = WellFormed

SpecJobs == InitJobs /\ [][NextJobs]_vars

\* ------------------------------------------------------------------------
\* The analyze_paper job: POST /analyze (api/routers/papers.py lines 18-57)
\* and the worker task (workers/tasks/paper_tasks.py lines 61-111)
\* ------------------------------------------------------------------------

MaxDeliveries == 3
AnalyzeOutcomes == {"result", "error"}

\* paper_service.py analyze_paper: the mapping it returns. Every exception of
\* its stages is caught in lines 116-128 and turned into the "error" mapping.
analyze_paper(outcome) ==
    IF outcome = "result"
    THEN [keys |-> {"arxiv_id", "answer", "citations", "hallucination_risk", "job_id"},
          arxiv_id |-> ArxivId, answer |-> "answer", citations |-> "Section 3",
          hallucination_risk |-> "LOW", job_id |-> "uuid"]
    ELSE [keys |-> {"error", "arxiv_id", "answer", "citations", "hallucination_score",
                    "hallucination_risk", "cached", "job_id"},
          error |-> "boom", arxiv_id |-> ArxivId, answer |-> "No answer generated",
          citations |-> "No citations mentioned", hallucination_score |-> 0,
          hallucination_risk |-> "UNKNOWN", cached |-> FALSE, job_id |-> "uuid"]

\* crud.py lines 232-271 as the task calls it: the table after
\* update_job_status(job_id, status, result, error) committed at time t
UpdatedJobs(job_id, status, res, error, t) ==
    IF job_id \in DOMAIN jobs
    THEN [jobs EXCEPT ![job_id] = UpdatedJob(jobs[job_id], status, res, error, None, t)]
    ELSE jobs

\* paper_tasks.py lines 97-107: the handler records the failure
FailedJobs(job_id, t) == UpdatedJobs(job_id, "failed", None, Some("boom"), t)

\* papers.py lines 27-41: create_job(status="pending"), then analyze_paper.delay
Submit(job_id) ==
    /\ Len(tasks) < MaxDeliveries
    /\ job_id \notin DOMAIN jobs
    /\ jobs' = (job_id :> NewJob(job_id, "pending", now)) @@ jobs
    /\ tasks' = Append(tasks, [job_id |-> job_id, pc |-> "queued", analysis |-> "none"])
    /\ now' = now + 1
    /\ UNCHANGED <<detectorvars, state, node, visited, papers, arxiv_modified,
                   qa_cache, last_call>>

\* celery_config.py task_acks_late, task_reject_on_worker_lost: a message
\* whose run was not acknowledged is delivered again
Redeliver(i) ==
    /\ Len(tasks) < MaxDeliveries
    /\ tasks[i].pc # "queued"
    /\ tasks' = Append(tasks, [job_id |-> tasks[i].job_id, pc |-> "queued",
                               analysis |-> "none"])
    /\ UNCHANGED <<detectorvars, state, node, visited, papers, arxiv_modified,
                   qa_cache, jobvars>>

\* paper_tasks.py lines 73-79, and lines 97-107 when the update raises
TaskStart(i, raises) ==
    /\ tasks[i].pc = "queued"
    /\ IF raises
       THEN /\ jobs' = FailedJobs(tasks[i].job_id, now)
            /\ tasks' = [tasks EXCEPT ![i].pc = "raised"]
       ELSE /\ jobs' = UpdatedJobs(tasks[i].job_id, "processing", None, None, now)
            /\ tasks' = [tasks EXCEPT ![i].pc = "processing"]
    /\ now' = now + 1
    /\ UNCHANGED <<detectorvars, state, node, visited, papers, arxiv_modified,
                   qa_cache, last_call>>

\* paper_tasks.py line 83
TaskAnalyze(i, outcome) ==
    /\ tasks[i].pc = "processing"
    /\ tasks' = [tasks EXCEPT ![i].pc = "analyzed", ![i].analysis = outcome]
    /\ UNCHANGED <<detectorvars, state, node, visited, papers, arxiv_modified,
                   qa_cache, jobvars>>

\* paper_tasks.py lines 85-90
StatusAfterAnalysis(analysis) == "completed"

\* paper_tasks.py lines 85-95, and lines 97-107 when the update raises
TaskComplete(i, raises) ==
    /\ tasks[i].pc = "analyzed"
    /\ IF raises
       THEN /\ jobs' = FailedJobs(tasks[i].job_id, now)
            /\ tasks' = [tasks EXCEPT ![i].pc = "raised"]
       ELSE /\ jobs' = UpdatedJobs(tasks[i].job_id,
                                   StatusAfterAnalysis(tasks[i].analysis),
                                   Some(analyze_paper(tasks[i].analysis)), None, now)
            /\ tasks' = [tasks EXCEPT ![i].pc = "returned"]
    /\ now' = now + 1
    /\ UNCHANGED <<detectorvars, state, node, visited, papers, arxiv_modified,
                   qa_cache, last_call>>

NextWorker ==
    \/ \E job_id \in JobIds : Submit(job_id)
    \/ \E i \in DOMAIN tasks : Redeliver(i)
    \/ \E i \in DOMAIN tasks, raises \in BOOLEAN : TaskStart(i, raises)
    \/ \E i \in DOMAIN tasks, outcome \in AnalyzeOutcomes : TaskAnalyze(i, outcome)
    \/ \E i \in DOMAIN tasks, raises \in BOOLEAN : TaskComplete(i, raises)

InitWorker == InitJobs

SpecWorker == InitWorker /\ [][NextWorker]_vars

\* ------------------------------------------------------------------------
\* The QA cache (api/services/crud.py lines 93-194,
\* api/services/cache_service.py lines 34-93)
\* ------------------------------------------------------------------------

Q_why == <<"W", "h", "y", "?">>
Q_why_spaced == <<" ", "w", "h", "y", "?", " ">>
Q_how == <<"H", "o", "w", "?">>
Questions == {Q_why, Q_why_spaced, Q_how}
Answers == {"first", "second"}

\* crud.py lines 93-96: the digest of question.lower().strip(); a digest is
\* written as the text it is the digest of (distinct texts, distinct digests)
generate_question_hash(question) == Strip(Lower(question))

\* crud.py lines 107-112: the rows the statement selects
SelectedRows(arxiv_id, question) ==
    {i \in DOMAIN qa_cache :
        /\ qa_cache[i].arxiv_id = arxiv_id
        /\ qa_cache[i].question_hash = generate_question_hash(question)}

\* crud.py lines 114-118 and 132: the access tracking that get_cached_qa
\* commits when it finds a row
Accessed(arxiv_id, question, t) ==
    [i \in DOMAIN qa_cache |->
        IF i \in SelectedRows(arxiv_id, question)
        THEN [qa_cache[i] EXCEPT !.access_count = @ + 1, !.last_accessed_at = Some(t)]
        ELSE qa_cache[i]]

\* crud.py lines 99-136: what get_cached_qa returns, a mapping or None
get_cached_qa(arxiv_id, question) ==
    IF SelectedRows(arxiv_id, question) = {} THEN None
    ELSE LET cached_qa == qa_cache[CHOOSE i \in SelectedRows(arxiv_id, question) : TRUE]
         IN  Some([keys |-> {"arxiv_id", "question", "answer", "citations", "cached"},
                   arxiv_id |-> cached_qa.arxiv_id, question |-> cached_qa.question,
                   answer |-> cached_qa.answer, citations |-> cached_qa.citations,
                   cached |-> TRUE])

\* crud.py lines 176-187
PaperQACache(arxiv_id, question, answer, t) ==
    [arxiv_id |-> arxiv_id, question_hash |-> generate_question_hash(question),
     question |-> question, answer |-> answer, citations |-> "Section 3",
     access_count |-> 0, created_at |-> Some(t), last_accessed_at |-> None]

\* cache_service.py lines 34-57
check_qa_cache(arxiv_id, question) ==
    /\ now < MaxTime
    /\ qa_cache' = Accessed(arxiv_id, question, now)
    /\ last_call' = [keys |-> {"op", "arxiv_id", "question", "returned"},
                     op |-> "check_qa_cache", arxiv_id |-> arxiv_id,
                     question |-> question,
                     returned |-> get_cached_qa(arxiv_id, question)]
    /\ now' = now + 1
    /\ UNCHANGED <<detectorvars, state, node, visited, papers, arxiv_modified, tasks,
                   jobs>>

\* cache_service.py lines 59-93 around crud.py lines 139-194. existing is the
\* mapping get_cached_qa returns: the assignment existing.answer = answer of
\* line 159 raises AttributeError on it, and store_qa_result returns False.
store_qa_result(arxiv_id, question, answer) ==
    /\ now < MaxTime
    /\ LET existing == get_cached_qa(arxiv_id, question)
           call == [keys |-> {"op", "arxiv_id", "question", "answer", "returned"},
                    op |-> "store_qa_result", arxiv_id |-> arxiv_id,
                    question |-> question, answer |-> answer]
       IN  IF existing # None
           THEN /\ qa_cache' = Accessed(arxiv_id, question, now)
                /\ last_call' = call @@ [returned |-> FALSE]
           ELSE /\ qa_cache' = Append(qa_cache,
                                      PaperQACache(arxiv_id, question, answer, now))
                /\ last_call' = call @@ [returned |-> TRUE]
    /\ now' = now + 1
    /\ UNCHANGED <<detectorvars, state, node, visited, papers, arxiv_modified, tasks,
                   jobs>>

NextCache ==
    \/ \E question \in Questions : check_qa_cache(ArxivId, question)
    \/ \E question \in Questions, answer \in Answers :
          store_qa_result(ArxivId, question, answer)

InitCache == InitJobs

SpecCache == InitCache /\ [][NextCache]_vars

\* ------------------------------------------------------------------------
\* Properties
\* ------------------------------------------------------------------------

Verdict == result.comprehensive_hallucination_check
Returned == pc = "done"
\* verify_citations has just returned (its result is never changed later)
CitationsVerified == pc = "verify_claims"

\* C1: the risk tier of a returned verdict follows the strict thresholds:
\* CRITICAL exactly when the score is above 0.7, HIGH exactly when it is
\* above 0.5 and at most 0.7, MEDIUM exactly when it is above 0.3 and at most
\* 0.5, LOW exactly when it is at most 0.3.
C1_StrictThresholds ==
    Returned =>
        LET s == Verdict.overall_score
            risk == Verdict.overall_risk
        IN  /\ risk \in {"CRITICAL", "HIGH", "MEDIUM", "LOW"}
            /\ (risk = "CRITICAL") <=> RGt(s, Rat(7, 10))
            /\ (risk = "HIGH") <=> (RGt(s, Rat(5, 10)) /\ RLe(s, Rat(7, 10)))
            /\ (risk = "MEDIUM") <=> (RGt(s, Rat(3, 10)) /\ RLe(s, Rat(5, 10)))
            /\ (risk = "LOW") <=> RLe(s, Rat(3, 10))

\* a verdict whose score is exactly 0.7 and whose tier is HIGH
C1_Witness ==
    /\ Returned
    /\ Verdict.overall_score = Rat(7, 10)
    /\ Verdict.overall_risk = "HIGH"

\* C2: the returned overall_score is the weighted sum, with the configured
\* weights, of the citation score, the claim score (0.5 when the claim check
\* gave none) and 1 - average_similarity, and component_scores reports these
\* three terms.
C2_WeightedSum ==
    Returned =>
        LET cs == Verdict.component_scores
            citation_score == citation_check.hallucination_check.score
            claim_score ==
                IF "hallucination_score" \in llm_check.llm_verification.keys
                THEN llm_check.llm_verification.hallucination_score
                ELSE Rat(1, 2)
            avg_similarity == consistency_check.consistency_check.average_similarity
        IN  /\ cs.citation_verification = citation_score
            /\ cs.llm_verification = claim_score
            /\ cs.consistency_check = RSub(ROne, avg_similarity)
            /\ Verdict.overall_score =
                   RAdd(RAdd(RMul(settings.CITATION_SCORE, citation_score),
                             RMul(settings.LLM_SCORE, claim_score)),
                        RMul(settings.CONSISTENCY_SCORE, RSub(ROne, avg_similarity)))

\* a verdict under the default weights whose three terms all come from real
\* measurements and differ from one another
C2_Witness ==
    /\ Returned
    /\ settings = DefaultWeights
    /\ "hallucination_score" \in llm_check.llm_verification.keys
    /\ "pairwise_similarities" \in consistency_check.consistency_check.keys
    /\ LET cs == Verdict.component_scores
       IN  /\ cs.citation_verification # cs.llm_verification
           /\ cs.llm_verification # cs.consistency_check
           /\ cs.citation_verification # cs.consistency_check
           /\ RGt(cs.citation_verification, RZero)

\* C3: with an empty answer and no retrieved chunks, under the default
\* weights, the returned overall_score is exactly 0.5.
C3_MissingAnswerIsNeutral ==
    (/\ Returned
     /\ settings = DefaultWeights
     /\ state.answer = <<>>
     /\ state.retrieved_chunks = <<>>)
    => Verdict.overall_score = Rat(1, 2)

\* C4: when the consistency check reports skipped, error or insufficient_data,
\* the consistency component of the verdict is the neutral 0.5.
C4_ConsistencyNeutralDefault ==
    (/\ Returned
     /\ Verdict.consistency_details.status \in {"skipped", "error", "insufficient_data"})
    => Verdict.component_scores.consistency_check = Rat(1, 2)

\* an extraction or NLI call that failed: it raised, or its result lacks
\* the verdict or the explanation
OracleFailure(call) ==
    \/ call.outcome.kind = "raise"
    \/ /\ call.oracle = "nli_chain"
       /\ call.outcome.nli_result.keys # {"verdict", "explanation"}
ClaimCalls == {n \in DOMAIN oracle_calls : oracle_calls[n].oracle \in {"claims_chain", "nli_chain"}}
FailedClaimCalls == {n \in ClaimCalls : OracleFailure(oracle_calls[n])}
FailureMessage(call) ==
    IF call.outcome.kind = "raise" THEN call.outcome.error
    ELSE IF "verdict" \notin call.outcome.nli_result.keys THEN "'verdict'"
    ELSE "'explanation'"

\* C5: once the extraction call or one NLI call has failed, the claim check
\* has stopped (the failed call is its last call) and returned exactly
\* status=failed with the error message, without hallucination_score or
\* verdicts, and a returned verdict uses 0.5 as its claim component.
C5_OracleFailureAborts ==
    \A n \in FailedClaimCalls :
        /\ \A m \in ClaimCalls : m <= n
        /\ llm_check.keys = {"llm_verification"}
        /\ llm_check.llm_verification.keys = {"status", "reason"}
        /\ llm_check.llm_verification.status = "failed"
        /\ llm_check.llm_verification.reason = FailureMessage(oracle_calls[n])
        /\ pc \notin {"verify_claims", "verify_claim"}
        /\ Returned => Verdict.component_scores.llm_verification = Rat(1, 2)

\* a verdict returned after the second NLI call failed with a first verdict
\* already obtained
C5_Witness ==
    /\ Returned
    /\ FailedClaimCalls # {}
    /\ Len(verifications) >= 1
    /\ Verdict.llm_details.status = "failed"
    /\ Verdict.component_scores.llm_verification = Rat(1, 2)

\* C6: a score is only ever computed with three non-negative weights that
\* sum to 1.
C6_WeightsValidated ==
    Returned =>
        /\ RAdd(RAdd(settings.CITATION_SCORE, settings.LLM_SCORE),
                settings.CONSISTENCY_SCORE) = ROne
        /\ RLe(RZero, settings.CITATION_SCORE)
        /\ RLe(RZero, settings.LLM_SCORE)
        /\ RLe(RZero, settings.CONSISTENCY_SCORE)

\* C7: when citations is empty or (lower-cased) one of the placeholder
\* phrases and the answer is not empty, the score returned by verify_citations
\* is at least 0.7; when the answer is empty no floor is applied and the score
\* is the plain fraction of unfound references.
C7_AbsenceFloor ==
    CitationsVerified =>
        LET hc == citation_check.hallucination_check
            vc == hc.verified_citations
            absent == state.citations = <<>> \/ Lower(state.citations) \in PlaceholderCitations
            unfound == Cardinality({n \in DOMAIN vc : ~vc[n].found})
        IN  /\ (absent /\ state.answer # <<>>) => RLe(Rat(7, 10), hc.score)
            /\ (absent /\ state.answer # <<>>) => ~hc.citation_present
            /\ state.answer = <<>> =>
                   hc.score = IF vc = <<>> THEN RZero ELSE Rat(unfound, Len(vc))

\* verify_citations has returned 0.7 for the placeholder "None" (written
\* with a capital) and a non-empty answer
C7_Witness ==
    /\ CitationsVerified
    /\ state.citations = C_none
    /\ state.answer # <<>>
    /\ citation_check.hallucination_check.score = Rat(7, 10)

\* C8: every component score and the overall score of a returned verdict lie
\* in [0, 1].
C8_ScoresInUnitInterval ==
    Returned =>
        LET cs == Verdict.component_scores
            unit(x) == RLe(RZero, x) /\ RLe(x, ROne)
        IN  /\ unit(cs.citation_verification)
            /\ unit(cs.llm_verification)
            /\ unit(cs.consistency_check)
            /\ unit(Verdict.overall_score)

\* C9: verify_citations lists one entry per extracted reference, and its
\* score is unfound / total over these entries (0 when there is none), raised
\* to 0.7 only where the absence floor applies.
C9_UnfoundFraction ==
    CitationsVerified =>
        LET hc == citation_check.hallucination_check
            vc == hc.verified_citations
            unfound == Cardinality({n \in DOMAIN vc : ~vc[n].found})
            fraction == IF vc = <<>> THEN RZero ELSE Rat(unfound, Len(vc))
            floored == ~hc.citation_present /\ state.answer # <<>>
        IN  /\ Len(vc) = Len(all_matches(state.citations))
            /\ ~floored => hc.score = fraction
            /\ floored => hc.score = RMax(fraction, Rat(7, 10))

\* two references were extracted, one found and one not: score 1/2
C9_Witness ==
    /\ CitationsVerified
    /\ LET vc == citation_check.hallucination_check.verified_citations
       IN  /\ Len(vc) = 2
           /\ \E n \in DOMAIN vc : vc[n].found
           /\ \E n \in DOMAIN vc : ~vc[n].found
    /\ citation_check.hallucination_check.score = Rat(1, 2)

\* C10: a claim check that returns a hallucination_score has a verdict for
\* every extracted claim, counts as supported exactly the verdicts SUPPORTED,
\* and scores 1 - supported / total, or 0.5 when no claim was extracted.
C10_ClaimScore ==
    (pc \notin {"verify_citations", "verify_claims", "verify_claim"}
     /\ "llm_verification" \in llm_check.keys
     /\ "hallucination_score" \in llm_check.llm_verification.keys) =>
        LET lv == llm_check.llm_verification
            vs == lv.verifications
            supported == Cardinality({n \in DOMAIN vs : vs[n].verdict = "SUPPORTED"})
        IN  /\ FailedClaimCalls = {}
            /\ Len(vs) = Len(claims)
            /\ \A n \in DOMAIN vs : vs[n].claim = claims[n]
            /\ lv.total_claims = Len(claims)
            /\ lv.supported_claims = supported
            /\ lv.hallucination_score =
                   IF Len(claims) = 0 THEN Rat(1, 2)
                   ELSE RSub(ROne, Rat(supported, Len(claims)))

\* two claims, one SUPPORTED and one NOT_MENTIONED: score 1/2
C10_Witness ==
    /\ pc = "cross_check"
    /\ "hallucination_score" \in llm_check.llm_verification.keys
    /\ LET lv == llm_check.llm_verification
       IN  /\ lv.total_claims = 2
           /\ \E n \in DOMAIN lv.verifications : lv.verifications[n].verdict = "NOT_MENTIONED"
           /\ lv.supported_claims = 1
           /\ lv.hallucination_score = Rat(1, 2)

\* ------------------------------------------------------------------------
\* Skipping, failures and the order of the references
\* ------------------------------------------------------------------------

ClaimsChecked == pc \in {"cross_check", "variation_1", "variation_2", "aggregate",
                         "done"}
ConsistencyChecked == pc \in {"aggregate", "done"}

\* C11: when the answer or the retrieved chunks are empty, the claim check and
\* the consistency check both report status skipped and no call is made to
\* the extraction, NLI or answer-generation chain.
C11_SkipWithoutOracle ==
    (state.answer = <<>> \/ state.retrieved_chunks = <<>>) =>
        /\ oracle_calls = <<>>
        /\ pc # "raised"
        /\ ClaimsChecked => llm_check.llm_verification.status = "skipped"
        /\ ConsistencyChecked => consistency_check.consistency_check.status = "skipped"

C11_Witness ==
    /\ Returned
    /\ state.answer # <<>>
    /\ state.retrieved_chunks = <<>>
    /\ oracle_calls = <<>>
    /\ Verdict.llm_details.status = "skipped"
    /\ Verdict.consistency_details.status = "skipped"

RegenerationCalls == {n \in DOMAIN oracle_calls : oracle_calls[n].oracle = "qa_chain"}
FailedRegenerationCalls ==
    {n \in RegenerationCalls : oracle_calls[n].outcome.kind = "raise"}

\* C12: when one of the two answer-regeneration calls of cross_check_answer
\* fails, the consistency check reports status error with average similarity
\* 0 and computes no similarity from the remaining answers.
C12_RegenerationFailureIsError ==
    (ConsistencyChecked /\ FailedRegenerationCalls # {}) =>
        /\ consistency_check.consistency_check.status = "error"
        /\ consistency_check.consistency_check.average_similarity = RZero
        /\ "pairwise_similarities" \notin consistency_check.consistency_check.keys

\* the three answers compared by cross_check_answer once both regeneration
\* calls have been made
RegeneratedAnswers ==
    LET var2_outcome == oracle_calls[Len(oracle_calls)].outcome
        var2_result == generate_answer(variation_state(state), var2_outcome)
    IN  <<state.answer, DictGet(var1_result, "answer", <<>>),
          DictGet(var2_result, "answer", <<>>)>>

\* C13: only the answers longer than 10 characters are kept; with fewer than
\* two of them the status is insufficient_data and the similarity 0, else the
\* similarity is the mean over all n(n-1)/2 unordered pairs of the n kept.
C13_KeptAnswersAndPairs ==
    (ConsistencyChecked /\ Cardinality(RegenerationCalls) = 2) =>
        LET LongerThanTen(a) == Len(a) > 10
            kept == SelectSeq(RegeneratedAnswers, LongerThanTen)
            n == Len(kept)
            sim(i, j) == RatioOf(Lower(kept[i]), Lower(kept[j]))
            total == IF n = 2 THEN sim(1, 2)
                     ELSE RAdd(RAdd(sim(1, 2), sim(1, 3)), sim(2, 3))
            cc == consistency_check.consistency_check
        IN  IF n < 2
            THEN /\ cc.status = "insufficient_data"
                 /\ cc.average_similarity = RZero
                 /\ cc.valid_answers = n
            ELSE /\ cc.status \notin {"insufficient_data", "skipped", "error"}
                 /\ cc.variation_count = n
                 /\ Len(cc.pairwise_similarities) = (n * (n - 1)) \div 2
                 /\ cc.average_similarity = RDivInt(total, (n * (n - 1)) \div 2)

\* three answers are kept and their pairwise similarities differ
C13_Witness ==
    /\ Returned
    /\ Cardinality(RegenerationCalls) = 2
    /\ "variation_count" \in Verdict.consistency_details.keys
    /\ Verdict.consistency_details.variation_count = 3
    /\ Len(Verdict.consistency_details.pairwise_similarities) = 3
    /\ Verdict.consistency_details.pairwise_similarities[1]
           # Verdict.consistency_details.pairwise_similarities[2]

\* C14: a reference is not found exactly when its value is neither in the
\* source text (whole word) nor in a retrieved chunk (substring); confidence is
\* medium when it is in the source text only, and high only when it is in the
\* source text and also in a retrieved chunk.
C14_HighConfidenceNeedsSource ==
    CitationsVerified =>
        LET results == citation_check.hallucination_check.verified_citations
            ms == all_matches(state.citations)
        IN  \A n \in DOMAIN results :
                LET ref == Group1(state.citations, ms[n])
                    in_text == WholeWordSearch(ref, state.raw_text)
                    in_chunk == \E k \in DOMAIN state.retrieved_chunks :
                                    Contains(Lower(DictGet(state.retrieved_chunks[k], "content", <<>>)),
                                             Lower(ref))
                IN  /\ ~results[n].found <=> (~in_text /\ ~in_chunk)
                    /\ (in_text /\ ~in_chunk) => results[n].confidence = "medium"
                    /\ results[n].confidence = "high" => (in_text /\ in_chunk)

\* C15: no failure of an external inference or generation call, the failure to
\* obtain the client for it included, leaves comprehensive_check as an
\* exception; the component reports its status and a verdict is returned.
C15_OracleFailuresRecovered ==
    ~(pc = "raised" /\ exception = "RuntimeError")

\* the state is not a well-formed PaperState for verify_citations
MalformedInput(st) ==
    \/ "raw_text" \notin st.keys
    \/ IsNone(st, "raw_text")
    \/ IsNone(st, "citations")
    \/ \E k \in DOMAIN st.retrieved_chunks : "content" \notin st.retrieved_chunks[k].keys

\* C16: verify_citations never raises; on malformed input (raw_text missing or
\* None, citations None, a chunk without content) it returns score 0 with an
\* empty reference list.
C16_MalformedInputScoresZero ==
    (MalformedInput(state) /\ pc # "verify_citations") =>
        /\ exception \notin {"KeyError", "TypeError"}
        /\ citation_check.hallucination_check.score = RZero
        /\ citation_check.hallucination_check.verified_citations = <<>>

SecondRun == first_run # NoValue

\* two states with the same citations, source text and retrieved chunks
SameTriple(st1, st2) ==
    /\ st1.citations = st2.citations
    /\ st1.raw_text = st2.raw_text
    /\ st1.retrieved_chunks = st2.retrieved_chunks

\* C17 as stated: a second run of comprehensive_check on the same state with
\* the same stub answers returns the same output, and the score and the
\* reference list of verify_citations are fixed by (citations, raw_text,
\* retrieved_chunks) alone.
C17_FixedByTriple ==
    /\ (SecondRun /\ Returned) =>
           /\ result = first_run.result
           /\ oracle_calls = first_run.oracle_calls
    /\ (~SecondRun /\ CitationsVerified) =>
           \A st \in InputStates :
               SameTriple(st, state) =>
                   LET hc == verify_citations(st).hallucination_check
                   IN  /\ hc.verified_citations
                              = citation_check.hallucination_check.verified_citations
                       /\ hc.score = citation_check.hallucination_check.score

\* C17, amended: a second run of comprehensive_check on the same state with
\* the same stub answers makes the same calls and returns the same output;
\* the reference list of verify_citations is fixed by (citations, raw_text,
\* retrieved_chunks), and its score by these and by whether the answer is
\* empty.
C17_Idempotent ==
    /\ SecondRun =>
           /\ Len(oracle_calls) <= Len(first_run.oracle_calls)
           /\ \A n \in DOMAIN oracle_calls : oracle_calls[n] = first_run.oracle_calls[n]
    /\ (SecondRun /\ pc = "verify_claims") => citation_check = first_run.citation_check
    /\ (SecondRun /\ Returned) =>
           /\ result = first_run.result
           /\ oracle_calls = first_run.oracle_calls
    /\ (~SecondRun /\ CitationsVerified) =>
           \A st \in InputStates :
               SameTriple(st, state) =>
                   LET hc == verify_citations(st).hallucination_check
                   IN  /\ hc.verified_citations
                              = citation_check.hallucination_check.verified_citations
                       /\ ((st.answer = <<>>) <=> (state.answer = <<>>)) =>
                              hc.score = citation_check.hallucination_check.score

\* a second run that called all three chains has returned
C17_Witness ==
    /\ SecondRun
    /\ Returned
    /\ Len(oracle_calls) >= 4
    /\ result = first_run.result
    /\ Verdict.citation_details.score = AbsenceFloor

\* C18: update_job_status on an existing job sets the status to the given one
\* and stores a supplied progress, result and error; for status completed or
\* failed completed_at is then set; started_at and completed_at, once set, are
\* not changed by a later update; for a job_id that does not exist it returns
\* None and creates nothing.
C18_UpdateJobStatus ==
    [][(last_call' # last_call /\ last_call'.op = "update_job_status") =>
          LET c == last_call'
              id == c.job_id
          IN  IF id \in DOMAIN jobs
              THEN /\ c.returned = Some(jobs'[id])
                   /\ DOMAIN jobs' = DOMAIN jobs
                   /\ jobs'[id].status = c.status
                   /\ c.progress # None => jobs'[id].progress = c.progress
                   /\ c.result # None => jobs'[id].result = c.result
                   /\ c.error # None => jobs'[id].error = c.error
                   /\ c.status \in {"completed", "failed"} => jobs'[id].completed_at # None
                   /\ jobs[id].started_at # None => jobs'[id].started_at = jobs[id].started_at
                   /\ jobs[id].completed_at # None =>
                          jobs'[id].completed_at = jobs[id].completed_at
                   /\ \A other \in DOMAIN jobs \ {id} : jobs'[other] = jobs[other]
              ELSE /\ c.returned = None
                   /\ jobs' = jobs
      ]_vars

\* a job whose completed_at was set by an earlier update has been updated again
C18_Witness ==
    /\ "job-1" \in DOMAIN jobs
    /\ jobs["job-1"].status = "failed"
    /\ jobs["job-1"].completed_at # None
    /\ jobs["job-1"].completed_at # jobs["job-1"].updated_at
    /\ last_call.op = "update_job_status"
    /\ last_call.job_id = "job-1"

\* C19: verified_citations lists the references in the order in which they
\* appear in the citations text, whatever their kinds.
C19_TextualOrder ==
    CitationsVerified =>
        LET results == citation_check.hallucination_check.verified_citations
            ms == all_matches(state.citations)
        IN  /\ Len(results) = Len(ms)
            /\ \A i, j \in DOMAIN ms : i < j => ms[i].start < ms[j].start

\* the keywords of the three patterns, lower-cased and without a trailing period
KeywordTypes ==
    { <<"s", "e", "c", "t", "i", "o", "n">>, <<"s", "e", "c">>, <<"sect_sign">>,
      <<"p">>, <<"p", "p">>, <<"p", "a", "g", "e">>,
      <<"f", "i", "g">>, <<"f", "i", "g", "u", "r", "e">>,
      <<"t", "a", "b", "l", "e">>, <<"t", "b", "l">> }

\* C20: the type of every reference is the matched keyword alone, lower-cased
\* and without a trailing period, with no part of the numeral in it, and the
\* reference value is the captured numeral or range.
C20_TypeIsKeyword ==
    CitationsVerified =>
        LET results == citation_check.hallucination_check.verified_citations
            ms == all_matches(state.citations)
        IN  \A n \in DOMAIN results :
                /\ results[n].type \in KeywordTypes
                /\ \A k \in DOMAIN results[n].type : ~IsDigit(results[n].type[k])
                /\ results[n].reference
                       = results[n].type \o <<" ">> \o Group1(state.citations, ms[n])

\* ------------------------------------------------------------------------
\* Compared answers, order of the checks, frame and monotonicity
\* ------------------------------------------------------------------------

SimilaritiesComputed ==
    /\ ConsistencyChecked
    /\ "pairwise_similarities" \in consistency_check.consistency_check.keys

\* C21 as stated: whenever similarities are computed, 2 or 3 answers are
\* compared and the original answer is always one of them.
C21_OriginalAlwaysCompared ==
    SimilaritiesComputed =>
        LET LongerThanTen(a) == Len(a) > 10
            kept == SelectSeq(RegeneratedAnswers, LongerThanTen)
        IN  /\ consistency_check.consistency_check.variation_count \in {2, 3}
            /\ consistency_check.consistency_check.variation_count = Len(kept)
            /\ \E n \in DOMAIN kept : kept[n] = state.answer

\* C21, amended: whenever similarities are computed, 2 or 3 answers are
\* compared, taken from the original and the two regenerated variants; the
\* original is one of them exactly when it is longer than 10 characters, and
\* otherwise the two regenerated variants are compared with each other alone.
C21_ComparedAnswers ==
    SimilaritiesComputed =>
        LET LongerThanTen(a) == Len(a) > 10
            kept == SelectSeq(RegeneratedAnswers, LongerThanTen)
            cc == consistency_check.consistency_check
        IN  /\ cc.variation_count \in {2, 3}
            /\ cc.variation_count = Len(kept)
            /\ Len(state.answer) > 10 => kept[1] = state.answer
            /\ Len(state.answer) <= 10 =>
                   /\ kept = Tail(RegeneratedAnswers)
                   /\ cc.pairwise_similarities = <<RatioOf(Lower(kept[1]), Lower(kept[2]))>>

\* a short original answer with two regenerated variants compared alone
C21_Witness ==
    /\ Returned
    /\ SimilaritiesComputed
    /\ state.answer = A_short
    /\ Verdict.consistency_details.variation_count = 2
    /\ Verdict.consistency_details.pairwise_similarities # <<ROne>>

\* the three sub-checks have each returned a result or a skip/fail status
AllChecksReturned ==
    /\ "hallucination_check" \in citation_check.keys
    /\ "llm_verification" \in llm_check.keys
    /\ \/ "hallucination_score" \in llm_check.llm_verification.keys
       \/ llm_check.llm_verification.status \in {"skipped", "failed"}
    /\ "consistency_check" \in consistency_check.keys
    /\ "average_similarity" \in consistency_check.consistency_check.keys

\* C22: the overall score and the risk tier are computed only after the three
\* sub-checks have each returned a result or a skip/fail status; there is no
\* verdict while a sub-check is outstanding, and none when the run is aborted
\* before the third sub-check returns.
C22_VerdictAfterAllChecks ==
    /\ pc \in {"aggregate", "done"} => AllChecksReturned
    /\ result # NoValue <=> pc = "done"
    /\ pc = "done" =>
           /\ Verdict.citation_details = citation_check.hallucination_check
           /\ Verdict.llm_details = llm_check.llm_verification
           /\ Verdict.consistency_details = consistency_check.consistency_check

\* a verdict built from a failed claim check and a consistency check without
\* enough answers
C22_Witness ==
    /\ Returned
    /\ "status" \in Verdict.llm_details.keys
    /\ Verdict.llm_details.status = "failed"
    /\ Verdict.consistency_details.status = "insufficient_data"
    /\ Verdict.citation_details.verified_citations # <<>>

\* C23: the four functions leave the state they are given unchanged: answer,
\* citations, retrieved_chunks, raw_text, question and metadata of the state
\* keep their values in every step, the results being new mappings.
C23_StateUnchanged ==
    [][/\ state'.keys = state.keys
       /\ \A k \in state.keys \cap {"answer", "citations", "retrieved_chunks",
                                   "raw_text", "question", "metadata"} :
              state'[k] = state[k]
       /\ state' = state]_vars

\* all three chains were called and the verdict carries new metadata, while
\* the metadata of the state is as it was given
C23_Witness ==
    /\ Returned
    /\ Len(oracle_calls) >= 4
    /\ state.answer = A_long
    /\ state.metadata = ("start_time" :> "t0")
    /\ result.metadata # state.metadata
    /\ "answer_consistency" \in DOMAIN result.metadata

\* component scores and similarities the monotonicity of the aggregator is
\* checked against
ScoreGrid == {RZero, Rat(1, 4), RHalf, Rat(7, 10), ROne}

TierRank(tier) ==
    CASE tier = "LOW" -> 0
      [] tier = "MEDIUM" -> 1
      [] tier = "HIGH" -> 2
      [] tier = "CRITICAL" -> 3

DefaultWeightsOf ==
    [citation |-> DefaultWeights.CITATION_SCORE, llm |-> DefaultWeights.LLM_SCORE,
     consistency |-> DefaultWeights.CONSISTENCY_SCORE]

SimilarityOf(x) == [consistency_check |-> [average_similarity |-> x]]

\* C24: with the default weights, raising the citation score, raising the
\* claim score or lowering the average similarity, the other two being held
\* fixed, never lowers overall_score and never moves overall_risk to a lower
\* tier.
C24_Monotone ==
    (Returned /\ settings = DefaultWeights) =>
        LET cs == Verdict.component_scores
            similarity == Verdict.consistency_details.average_similarity
            NotLower(score) ==
                /\ RLe(Verdict.overall_score, score)
                /\ TierRank(Verdict.overall_risk) <= TierRank(RiskTier(score))
        IN  \A x \in ScoreGrid :
                /\ RLe(cs.citation_verification, x) =>
                       NotLower(FinalScore(x, cs.llm_verification, cs.consistency_check,
                                           DefaultWeightsOf))
                /\ RLe(cs.llm_verification, x) =>
                       NotLower(FinalScore(cs.citation_verification, x,
                                           cs.consistency_check, DefaultWeightsOf))
                /\ RLe(x, similarity) =>
                       NotLower(FinalScore(cs.citation_verification, cs.llm_verification,
                                           ConsistencyScoreOf(SimilarityOf(x)),
                                           DefaultWeightsOf))

\* a verdict whose tier rises when the similarity alone is lowered
C24_Witness ==
    /\ Returned
    /\ settings = DefaultWeights
    /\ \E x \in ScoreGrid :
           /\ RLt(x, Verdict.consistency_details.average_similarity)
           /\ TierRank(Verdict.overall_risk)
                  < TierRank(RiskTier(FinalScore(
                        Verdict.component_scores.citation_verification,
                        Verdict.component_scores.llm_verification,
                        ConsistencyScoreOf(SimilarityOf(x)), DefaultWeightsOf)))

\* the citation strings generate_answer emits when it has no real citations
FallbackCitations == {NoChunksCitations, NotProvided}

\* C25: each fallback citation string of QAAgent.generate_answer ("No relevant
\* sections found", "Not provided") is classified by verify_citations as
\* citation_present = false, so that the 0.7 floor applies whenever there is
\* an answer.
C25_FallbackCitationsAbsent ==
    (CitationsVerified /\ state.citations \in FallbackCitations) =>
        /\ ~citation_check.hallucination_check.citation_present
        /\ state.answer # <<>> =>
               RLe(AbsenceFloor, citation_check.hallucination_check.score)

WorkflowEnded == node = "END"

\* C26: in one run of the workflow each sub-check is executed once, so the
\* consistency_check and the hallucination_check recorded in the final
\* workflow state are the results that appear as consistency_details and
\* citation_details in comprehensive_hallucination_check.
C26_ChecksRunOnce ==
    /\ Cardinality(RegenerationCalls) <= 2
    /\ WorkflowEnded =>
           /\ state.consistency_check
                  = state.comprehensive_hallucination_check.consistency_details
           /\ state.hallucination_check
                  = state.comprehensive_hallucination_check.citation_details

CacheChecked == Len(visited) >= 2
\* the database holds the paper with a date not older than arXiv's
CachedAndCurrent ==
    /\ ArxivId \in DOMAIN papers
    /\ papers[ArxivId].last_modified_date >= arxiv_modified
BranchTaken == IF Len(visited) = 2 THEN node ELSE visited[3]

\* C27: when the database holds the paper with a last_modified_date not
\* older than the paper's current arXiv modification date, the run goes from
\* check_cache to load_from_cache and never executes parse, summarize or
\* store_vector; otherwise it goes to parse.
C27_CurrentPaperUsesCache ==
    CacheChecked =>
        /\ BranchTaken = (IF CachedAndCurrent THEN "load_from_cache" ELSE "parse")
        /\ CachedAndCurrent =>
               Range(visited) \cap {"parse", "summarize", "store_vector"} = {}

Finished(i) == tasks[i].pc \in {"returned", "raised"}
Deliveries(job_id) == {i \in DOMAIN tasks : tasks[i].job_id = job_id}
IsErrorMapping(res) == res # None /\ "error" \in res[1].keys

\* C28: a job is recorded as completed only if the analysis succeeded: a
\* completed job does not hold the error mapping of a failed analysis, and a
\* job whose only run ended after a failed analysis has status failed with
\* its error field set.
C28_CompletedOnlyOnSuccess ==
    /\ \A j \in DOMAIN jobs :
           jobs[j].status = "completed" => ~IsErrorMapping(jobs[j].result)
    /\ \A i \in DOMAIN tasks :
           (Finished(i) /\ tasks[i].analysis = "error"
                /\ Deliveries(tasks[i].job_id) = {i}) =>
               /\ jobs[tasks[i].job_id].status = "failed"
               /\ jobs[tasks[i].job_id].error # None

StatusRank(status) ==
    CASE status = "pending" -> 0
      [] status = "processing" -> 1
      [] status \in {"completed", "failed"} -> 2

\* C29: the status of a job only moves forward along pending -> processing
\* -> {completed, failed}: no step of the API or of a worker task, a task
\* delivered again included, takes a job back to an earlier status or
\* changes the status of a completed or failed job.
C29_StatusMovesForward ==
    [][\A j \in DOMAIN jobs :
           /\ StatusRank(jobs'[j].status) >= StatusRank(jobs[j].status)
           /\ jobs[j].status \in {"completed", "failed"} =>
                  jobs'[j].status = jobs[j].status]_vars

StoreReturned == "op" \in last_call.keys /\ last_call.op = "store_qa_result"

\* C30: after cache_qa_result was called for an (arxiv_id, question), the
\* table holds exactly one entry for the arxiv_id and the hash of the
\* question (case and surrounding whitespace ignored), and that entry holds
\* the answer of the call, also when an entry existed before the call.
C30_StoreOverwrites ==
    /\ \A i, j \in DOMAIN qa_cache :
           (/\ qa_cache[i].arxiv_id = qa_cache[j].arxiv_id
            /\ qa_cache[i].question_hash = qa_cache[j].question_hash) => i = j
    /\ StoreReturned =>
           \E i \in SelectedRows(last_call.arxiv_id, last_call.question) :
               qa_cache[i].answer = last_call.answer

====
